---------------------------- MODULE Spec2Model ----------------------------
(***************************************************************************)
(* A model of lazycut's preview pipeline (package video): the LRU frame    *)
(* cache with position quantization, the trim state, the render worker    *)
(* with its sequence fence, and the BMP frame-stream parser.               *)
(*                                                                         *)
(* Each component has a specification of its own (SpecCache, SpecQuant,    *)
(* SpecTrim, SpecWorker, SpecStream); a component's actions leave the      *)
(* variables of the other components unchanged.                            *)
(***************************************************************************)
EXTENDS Integers, Sequences, FiniteSets, TLC

VARIABLES
    \* ---- FrameCache (cache.go) ----
    capacity,     \* FrameCache.capacity
    items,        \* FrameCache.items: the keys of the map
    order,        \* FrameCache.order: entries, most recently used first
    fps,          \* FrameCache.fps
    panicked,     \* a cache call ended in a run-time panic (integer divide by zero)
    tick,         \* history: number of cache calls made so far
    used,         \* history: key -> the last use of the key: the call's number (at) and
                  \* whether it was a Put of the key or a Get hit on it (by)
    cacheLast,    \* history: the last cache call and what it returned
    \* ---- TrimState (player.go) ----
    InPoint,      \* TrimState.InPoint: <<>> is nil, <<p>> points to p
    OutPoint,     \* TrimState.OutPoint
    trimLast,     \* history: the last TrimState call and the state it was made in
    \* ---- RenderWorker (audio.go); a request is named by its sequence number ----
    workerArg,    \* the argument NewRenderWorker was called with
    maxConcurrent,\* RenderWorker.maxConcurrent
    semaphore,    \* number of tokens in RenderWorker.semaphore
    latestSeq,    \* RenderWorker.latestSeq
    cancelFunc,   \* RenderWorker.cancelFunc: the request whose context it cancels, 0 is nil
    pc,           \* request -> where its goroutine stands in Submit's func
    ctx,          \* request -> its context: "none", "live", "done" (cancelled by a
                  \* later Submit or by CancelAll, or timed out), "closed" (by the
                  \* goroutine's own deferred cancel)
    result,       \* request -> what its render function returned: "none", "frame", "error"
    sync,         \* request -> "none" (Submit), or SubmitSync's caller: "waiting",
                  \* or what it returned: "result", "timeout"
    cbLog,        \* history: the requests whose callback was invoked, in order
    superseded,   \* history: the requests whose render function was running when a
                  \* request with a later sequence number was submitted
    issued,       \* history: the values NextSeq returned, in the order of the additions
    delivered,    \* history: request -> the result its callback was called with, or "none"
    \* ---- FrameStream (stream.go) ----
    cmd,          \* FrameStream.cmd: "ffmpeg" or "nil"
    stdout,       \* FrameStream.stdout: "pipe" or "nil"
    cancel,       \* FrameStream.cancel: "set" or "nil"
    pipe,         \* the bytes ffmpeg wrote that are not read yet; the pipe ends after them
    frames,       \* history: the chunks ffmpeg's output was made of
    cut,          \* history: the number of bytes that output lost at its end
    returned,     \* history: what each NextFrame call returned: frame (<<>> is nil), err
    closeCalls,   \* history: for each Close call, whether it called cancel and cmd.Wait
    \* ---- Player (player.go) ----
    duration,     \* Player.duration
    position,     \* Player.position
    playing,      \* Player.playing
    playerFps,    \* Player.fps
    width,        \* Player.width
    height,       \* Player.height
    frameInterval,\* Player.frameInterval
    currentFrame, \* Player.currentFrame: <<>> (none yet), <<"stream", pos>> for a frame of
                  \* a stream committed for pos, <<"still", pos>> for one rendered for pos
    stopChan,     \* Player.stopChan: the number of the channel (0 is NewPlayer's)
    closedChans,  \* the stop channels that have been closed
    stream,       \* Player.stream: a stream's number, 0 is nil
    streams,      \* stream number -> the FrameStream made by NewFrameStream
    audio,        \* AudioPlayer.cmd: "running" (ffplay started) or "stopped" (nil)
    loops,        \* loop number -> the playbackLoop goroutine started by that Play
    inCall,       \* the Player method the caller is in, past its locked part
    calls,        \* history: number of Player methods called
    seeks,        \* history: number of Seek calls that have set position
    seeksReturned,\* history: the last Seek made while playing that has returned
    paused,       \* history: Pause has returned from the playing state, no Play since
    lastCommit,   \* history: the last frame a playbackLoop committed
    quality,      \* Player.quality
    renderLast,   \* history: the last renderFrameCached call and what it found
    \* ---- Model (ui/model.go) ----
    repeatCount,  \* Model.repeatCount
    uiPanicked,   \* Update ended in a run-time panic (integer divide by zero)
    keys,         \* history: number of key messages handled, of those that are counted
    keyLast,      \* history: the last key handled and the state it was pressed in
    undoStack,    \* Model.undoStack: trimSnapshots, the last one pushed last
    previewMode,  \* Model.previewMode
    showExportModal, \* Model.showExportModal
    exportFocusField, \* Model.exportFocusField
    exporting,    \* Model.exporting
    exportProgress, \* Model.exportProgress, in percent
    showHelpModal,\* Model.showHelpModal
    uiNext,       \* where Update stands in a handler that calls the Player twice:
                  \* "none", "play" ('p', past its Seek), "pause" (a tick that has
                  \* found the Player playing in preview mode)
    previewChan,  \* history: the stop channel of the playback the last 'p' started
                  \* or found running, 0 before the first
    \* ---- AudioPlayer (audio.go) ----
    audioCmd,     \* AudioPlayer.cmd: id 0 is nil; started is cmd.Process != nil
    muted,        \* AudioPlayer.muted
    audioLive,    \* the ffplay processes that are running, by id
    audioSpawned, \* number of exec.Command("ffplay", ...) made so far: the last id
    audioLog      \* history: the AudioPlayer methods called, in order

cacheVars == <<capacity, items, order, fps, panicked, tick, used, cacheLast>>
trimVars == <<InPoint, OutPoint, trimLast>>
workerVars == <<workerArg, maxConcurrent, semaphore, latestSeq, cancelFunc, pc, ctx,
                result, sync, cbLog, superseded, issued, delivered>>
streamVars == <<cmd, stdout, cancel, pipe, frames, cut, returned, closeCalls>>
playerVars == <<duration, position, playing, playerFps, width, height, frameInterval,
                currentFrame, stopChan, closedChans, stream, streams, audio, loops, inCall,
                calls, seeks, seeksReturned, paused, lastCommit, quality, renderLast>>
uiVars == <<repeatCount, uiPanicked, keys, keyLast, undoStack, previewMode, showExportModal,
            exportFocusField, exporting, exportProgress, showHelpModal, uiNext, previewChan>>
audioVars == <<audioCmd, muted, audioLive, audioSpawned, audioLog>>
vars == <<cacheVars, trimVars, workerVars, streamVars, playerVars, uiVars, audioVars>>

----------------------------------------------------------------------------
(* Bounds of the model *)

\* longest sequence of cache calls explored
MaxOps == 4
\* largest capacity a cache is created with
MaxCap == 2
\* trim positions are 0..MaxTrimPos
MaxTrimPos == 3
\* longest sequence of cache calls explored for the quantization of positions
QuantOps == 2
\* number of sequence numbers NextSeq issues, and so of requests
MaxSeq == 2
\* largest number of chunks in ffmpeg's output
MaxFrames == 2
\* longest payload of the short chunks
MaxPayload == 2
\* largest number of bytes the output loses at its end
MaxCut == 2
\* largest number of NextFrame calls explored
MaxCalls == 3
\* largest number of Player methods called (after Play, where a specification
\* starts from a Player that is playing)
MaxApi == 2
\* largest number of those calls that start a playbackLoop
MaxPlays == 2
\* largest number of key messages the Model handles
MaxKeys == 4
\* largest number of digits of a repeat count
MaxDigits == 2
\* largest number of Close calls on one FrameStream
MaxCloses == 2
\* largest number of AudioPlayer method calls
MaxAudioCalls == 4

----------------------------------------------------------------------------
(* Helpers *)

\* Go's integer division truncates toward zero
TruncDiv(a, b) ==
    IF (a >= 0) = (b > 0) THEN (IF a >= 0 THEN a ELSE -a) \div (IF b > 0 THEN b ELSE -b)
    ELSE -((IF a >= 0 THEN a ELSE -a) \div (IF b > 0 THEN b ELSE -b))

\* the sequence s without its i-th element
RemoveAt(s, i) == SubSeq(s, 1, i - 1) \o SubSeq(s, i + 1, Len(s))

----------------------------------------------------------------------------
(* FrameCache *)

DefaultCacheCapacity == 100

\* time.Second in nanoseconds (time.Duration counts nanoseconds)
Second == 1000000000

QualityLow == 0
QualityMedium == 1
QualityHigh == 2

CacheKey(pos, w, h, qual) ==
    [Position |-> pos, Width |-> w, Height |-> h, Quality |-> qual]

\* NewFrameCache's choice of capacity
NewCapacity(c) == IF c <= 0 THEN DefaultCacheCapacity ELSE c

\* frameDuration := time.Duration(float64(time.Second) / c.fps), for a whole
\* number of frames per second: the conversion truncates
frameDuration(f) == Second \div f

\* position / frameDuration panics when frameDuration is 0
quantizePanics(f) == f > 0 /\ frameDuration(f) = 0

quantizePosition(f, pos) ==
    IF f <= 0 THEN pos
    ELSE TruncDiv(pos, frameDuration(f)) * frameDuration(f)

Keys(ord) == {ord[i].key : i \in 1..Len(ord)}

\* the place of key k in the list
IndexOf(ord, k) == CHOOSE i \in 1..Len(ord) : ord[i].key = k

\* list.MoveToFront
MoveToFront(ord, i) == <<ord[i]>> \o RemoveAt(ord, i)

\* Put's eviction: drops the back of the list when the list is full
EvictOffByOne(ord, cap) == IF Len(ord) > cap /\ Len(ord) > 0 THEN SubSeq(ord, 1, Len(ord) - 1) ELSE ord
Evict(ord, cap) ==
    IF Len(ord) >= cap /\ Len(ord) > 0 THEN SubSeq(ord, 1, Len(ord) - 1) ELSE ord

\* Get's promotion of the entry it hits
GetNoPromote(ord, k) == ord
GetPromote(ord, k) == MoveToFront(ord, IndexOf(ord, k))

\* Put's list: the entry of a key that is stored moves to the front with the
\* new frame; a new entry goes to the front of what the eviction keeps
OrderAfterPut(ord, its, cap, key, frame) ==
    IF key \in its
    THEN [MoveToFront(ord, IndexOf(ord, key)) EXCEPT ![1].frame = frame]
    ELSE <<[key |-> key, frame |-> frame]>> \o Evict(ord, cap)

\* Put's map
ItemsAfterPut(ord, its, cap, key) ==
    IF key \in its THEN its
    ELSE (its \ (Keys(ord) \ Keys(Evict(ord, cap)))) \cup {key}

CachePanic(op, pos, w, h, qual) ==
    /\ panicked' = TRUE
    /\ tick' = tick + 1
    /\ cacheLast' = [op |-> op, pos |-> pos, w |-> w, h |-> h,
                     q |-> qual, hit |-> FALSE, frame |-> "", panic |-> TRUE]
    /\ UNCHANGED <<capacity, items, order, fps, used>>

Get(pos, w, h, qual) ==
    /\ ~panicked
    /\ tick < MaxOps
    /\ IF quantizePanics(fps) THEN CachePanic("Get", pos, w, h, qual)
       ELSE LET key == CacheKey(quantizePosition(fps, pos), w, h, qual) IN
            /\ tick' = tick + 1
            /\ IF key \in items
               THEN /\ order' = GetPromote(order, key)
                    /\ used' = [used EXCEPT ![key] = [at |-> tick + 1, by |-> "Get"]]
                    /\ cacheLast' = [op |-> "Get", pos |-> pos, w |-> w,
                                     h |-> h, q |-> qual, hit |-> TRUE,
                                     frame |-> order[IndexOf(order, key)].frame,
                                     panic |-> FALSE]
               ELSE /\ cacheLast' = [op |-> "Get", pos |-> pos, w |-> w,
                                     h |-> h, q |-> qual, hit |-> FALSE,
                                     frame |-> "", panic |-> FALSE]
                    /\ UNCHANGED <<order, used>>
            /\ UNCHANGED <<capacity, items, fps, panicked>>
    /\ UNCHANGED <<trimVars, workerVars, streamVars, playerVars, uiVars, audioVars>>

Put(pos, w, h, qual, frame) ==
    /\ ~panicked
    /\ tick < MaxOps
    /\ IF quantizePanics(fps) THEN CachePanic("Put", pos, w, h, qual)
       ELSE LET key == CacheKey(quantizePosition(fps, pos), w, h, qual) IN
            /\ tick' = tick + 1
            /\ used' = [k \in DOMAIN used \cup {key} |->
                        IF k = key THEN [at |-> tick + 1, by |-> "Put"] ELSE used[k]]
            /\ cacheLast' = [op |-> "Put", pos |-> pos, w |-> w, h |-> h,
                             q |-> qual, hit |-> key \in items, frame |-> frame,
                             panic |-> FALSE]
            /\ order' = OrderAfterPut(order, items, capacity, key, frame)
            /\ items' = ItemsAfterPut(order, items, capacity, key)
            /\ UNCHANGED <<capacity, fps, panicked>>
    /\ UNCHANGED <<trimVars, workerVars, streamVars, playerVars, uiVars, audioVars>>

Clear ==
    /\ ~panicked
    /\ tick < MaxOps
    /\ items' = {}
    /\ order' = <<>>
    /\ tick' = tick + 1
    /\ cacheLast' = [op |-> "Clear", pos |-> 0, w |-> 0, h |-> 0, q |-> 0,
                     hit |-> FALSE, frame |-> "", panic |-> FALSE]
    /\ UNCHANGED <<capacity, fps, panicked, used>>
    /\ UNCHANGED <<trimVars, workerVars, streamVars, playerVars, uiVars, audioVars>>

\* the map after SetFPS: SetFPS assigns c.fps and nothing else
ItemsDropped(its) == {}
ItemsKept(its) == its

SetFPS(f) ==
    /\ ~panicked
    /\ tick < MaxOps
    /\ fps' = f
    /\ items' = ItemsKept(items)
    /\ tick' = tick + 1
    /\ cacheLast' = [op |-> "SetFPS", pos |-> f, w |-> 0, h |-> 0, q |-> 0,
                     hit |-> FALSE, frame |-> "", panic |-> FALSE]
    /\ UNCHANGED <<capacity, order, panicked, used>>
    /\ UNCHANGED <<trimVars, workerVars, streamVars, playerVars, uiVars, audioVars>>

\* Len
CacheLen == Len(order)

\* the inputs the cache is driven with
CachePositions == {0, 41666666, 83333333}
CacheSizes == {<<80, 24>>, <<40, 24>>}
CacheQualities == {QualityHigh}
CacheFrames == {"f1", "f2"}
CacheRates == {0, 24}

----------------------------------------------------------------------------
(* FrameCache: claims *)

\* C1: after every Put, Get, Clear and SetFPS call on a cache created with
\* capacity C > 0, the number of stored entries (Len) is at most C.
C1_LenAtMostCapacity == CacheLen <= capacity /\ Cardinality(items) <= capacity

\* C1's case: three calls, each a Put of a new key, on a cache of capacity 2:
\* the third Put was made on a full cache.
C1_PutOnFullCache ==
    /\ capacity = 2
    /\ tick = 3
    /\ Cardinality(DOMAIN used) = 3
    /\ cacheLast.op = "Put"
    /\ CacheLen = 2

\* the key a call is made for
KeyOf(f, call) == CacheKey(quantizePosition(f, call.pos), call.w, call.h, call.q)

FrameAt(ord, k) == ord[IndexOf(ord, k)].frame

\* a step that is a Put of a key that is not stored, made on a full cache
PutMissOnFull ==
    /\ tick' = tick + 1
    /\ cacheLast'.op = "Put" /\ ~cacheLast'.hit /\ ~cacheLast'.panic
    /\ Len(order) = capacity

\* the stored key whose last use (Put of it, or Get hit on it) is the oldest
LeastRecentlyUsed == CHOOSE k \in items : \A j \in items : used[k].at <= used[j].at

\* Put A, Put B, Get A (a hit), Put C on a cache of capacity 2, for any three keys
IsScenarioABC(A, B, C) ==
    /\ capacity = 2
    /\ tick = 4
    /\ DOMAIN used = {A, B, C}
    /\ Cardinality({A, B, C}) = 3
    /\ used[A] = [at |-> 3, by |-> "Get"]
    /\ used[B] = [at |-> 2, by |-> "Put"]
    /\ used[C] = [at |-> 4, by |-> "Put"]

\* C2: a Put of a key that is not stored, into a full cache, evicts exactly the
\* least recently used entry (used: a Put of its key or a Get hit on it), keeps
\* every other entry and stores the new one; with capacity 2, Put A, Put B,
\* Get A, Put C leaves A and C.
C2_EvictsLeastRecentlyUsed ==
    /\ [][PutMissOnFull =>
            /\ items' = (items \ {LeastRecentlyUsed}) \cup {KeyOf(fps, cacheLast')}
            /\ Keys(order') = items'
            /\ Len(order') = capacity
            /\ \A k \in items \ {LeastRecentlyUsed} : FrameAt(order', k) = FrameAt(order, k)
            /\ FrameAt(order', KeyOf(fps, cacheLast')) = cacheLast'.frame]_vars
    /\ [](\A A, B, C \in DOMAIN used :
            IsScenarioABC(A, B, C) => items = {A, C} /\ Keys(order) = {A, C})

\* C2's case: the cache after Put A, Put B, Get A, Put C with capacity 2
C2_ScenarioReached ==
    \E A, B, C \in DOMAIN used : IsScenarioABC(A, B, C) /\ B \notin items

\* a step that is a call of SetFPS, of Get, of Put
SetFPSStep == tick' = tick + 1 /\ cacheLast'.op = "SetFPS"
GetStep == tick' = tick + 1 /\ cacheLast'.op = "Get" /\ ~cacheLast'.panic
PutStep == tick' = tick + 1 /\ cacheLast'.op = "Put" /\ ~cacheLast'.panic

\* C27: SetFPS changes the frame rate that later Get and Put calls quantize
\* with and nothing else: the entries, their keys, their frames and their
\* order stay.  A later Get hits exactly when the key made of the position
\* quantized at the new rate is stored, whatever the rate it was stored at,
\* and yields that entry's frame; a later Put of a key that is not stored
\* evicts as the number of stored entries, old ones included, demands.
C27_SetFPSKeepsEntries ==
    /\ [][SetFPSStep => (items' = items /\ order' = order /\ capacity' = capacity
                          /\ fps' = cacheLast'.pos)]_vars
    /\ [][GetStep => /\ cacheLast'.hit <=> KeyOf(fps, cacheLast') \in items
                     /\ cacheLast'.hit => cacheLast'.frame = FrameAt(order, KeyOf(fps, cacheLast'))
                     /\ items' = items]_vars
    /\ [][(PutStep /\ ~cacheLast'.hit) =>
             /\ Len(order') = IF Len(order) >= capacity THEN capacity ELSE Len(order) + 1
             /\ order'[1].key = KeyOf(fps, cacheLast')]_vars
    /\ [](items = Keys(order))

\* an entry stored at rate 0 under position 83333333 is still stored after
\* SetFPS(24), and a Get of that position, which now quantizes to 83333332,
\* misses it
C27_OldEntryMissedAtNewRate ==
    /\ fps = 24 /\ cacheLast.op = "Get" /\ ~cacheLast.hit /\ cacheLast.pos = 83333333
    /\ quantizePosition(fps, cacheLast.pos) = 83333332
    /\ CacheKey(83333333, cacheLast.w, cacheLast.h, cacheLast.q) \in items

----------------------------------------------------------------------------
(* FrameCache: quantization of positions *)

\* frame rates: 24 and 30 frames per second, and rates at and above one frame
\* per nanosecond, where frameDuration is 1 and 0
QuantRates == {24, 30, 1000000000, 2000000000}

\* positions at and next to the frame boundaries of these rates
QuantPositions == {0, 1, 33333332, 33333333, 41666665, 41666666, 83333332}

\* width, height, quality: each differs from the first in one field
QuantVariants == {<<80, 24, QualityHigh>>, <<40, 24, QualityHigh>>, <<80, 24, QualityLow>>}

\* positions p and q lie in the same bucket of one frame duration; at rates
\* above one frame per nanosecond every position is a bucket of its own
SameBucket(f, p, q) ==
    IF frameDuration(f) > 0 THEN p \div frameDuration(f) = q \div frameDuration(f)
    ELSE p = q

\* q lies in the bucket next to p's
OneBucketApart(f, p, q) ==
    /\ frameDuration(f) > 0
    /\ LET d == (p \div frameDuration(f)) - (q \div frameDuration(f)) IN d = 1 \/ d = -1

\* a step that is a Get made right after a Put with the same width, height and
\* quality, at a frame rate > 0
GetAfterPut ==
    /\ fps > 0
    /\ tick' = tick + 1
    /\ cacheLast.op = "Put" /\ cacheLast'.op = "Get"
    /\ cacheLast'.w = cacheLast.w /\ cacheLast'.h = cacheLast.h /\ cacheLast'.q = cacheLast.q

PutThenGetCollides ==
    GetAfterPut =>
        /\ SameBucket(fps, cacheLast.pos, cacheLast'.pos)
              => cacheLast'.hit /\ cacheLast'.frame = cacheLast.frame
        /\ (OneBucketApart(fps, cacheLast.pos, cacheLast'.pos) /\ Cardinality(items) = 1)
              => ~cacheLast'.hit

\* C3: for any frame rate fps > 0 and fixed width, height and quality, a Put at
\* p followed by a Get at q hits when p and q lie in the same frame-duration
\* bucket and misses when q lies one bucket away (the cache holding nothing
\* else); the Put and the Get return.
C3_SameBucketCollides ==
    [][/\ fps > 0 => ~panicked'
       /\ PutThenGetCollides]_vars

\* the same for the frame rates up to 1e9, where frameDuration >= 1 ns
C3_CollidesUpToNanosecondRates ==
    [][/\ (fps > 0 /\ fps <= Second) => ~panicked'
       /\ fps <= Second => PutThenGetCollides]_vars

\* a Get right after a Put into the same bucket, and one into the next bucket
C3_SameBucketReached ==
    /\ tick = 2 /\ cacheLast.op = "Get" /\ cacheLast.hit
    /\ cacheLast.pos = 41666665 /\ fps = 24

----------------------------------------------------------------------------
(* TrimState *)

TrimPositions == 0..MaxTrimPos

\* what SetIn leaves in OutPoint
SetInOutPoint(out, pos) == IF out # <<>> /\ pos > out[1] THEN <<>> ELSE out

\* what SetOut leaves in InPoint
SetOutKeepsIn(in, pos) == in
SetOutInPoint(in, pos) == IF in # <<>> /\ pos < in[1] THEN <<>> ELSE in

SetIn(pos) ==
    /\ OutPoint' = SetInOutPoint(OutPoint, pos)
    /\ InPoint' = <<pos>>
    /\ trimLast' = [op |-> "SetIn", pos |-> pos, preIn |-> InPoint, preOut |-> OutPoint]
    /\ UNCHANGED <<cacheVars, workerVars, streamVars, playerVars, uiVars, audioVars>>

SetOut(pos) ==
    /\ InPoint' = SetOutInPoint(InPoint, pos)
    /\ OutPoint' = <<pos>>
    /\ trimLast' = [op |-> "SetOut", pos |-> pos, preIn |-> InPoint, preOut |-> OutPoint]
    /\ UNCHANGED <<cacheVars, workerVars, streamVars, playerVars, uiVars, audioVars>>

TrimClear ==
    /\ InPoint' = <<>>
    /\ OutPoint' = <<>>
    /\ trimLast' = [op |-> "Clear", pos |-> 0, preIn |-> InPoint, preOut |-> OutPoint]
    /\ UNCHANGED <<cacheVars, workerVars, streamVars, playerVars, uiVars, audioVars>>

IsCompleteAlways == TRUE
IsComplete == InPoint # <<>> /\ OutPoint # <<>>

\* C4: after every SetIn, SetOut and Clear call, InPoint <= OutPoint whenever
\* both are set; SetOut(p) with p earlier than the in-point unsets the in-point
\* and SetIn(p) with p later than the out-point unsets the out-point.
C4_TrimOrdered ==
    /\ IsComplete => InPoint[1] <= OutPoint[1]
    /\ (trimLast.op = "SetOut" /\ trimLast.preIn # <<>> /\ trimLast.pos < trimLast.preIn[1])
          => InPoint = <<>> /\ OutPoint = <<trimLast.pos>>
    /\ (trimLast.op = "SetIn" /\ trimLast.preOut # <<>> /\ trimLast.pos > trimLast.preOut[1])
          => OutPoint = <<>> /\ InPoint = <<trimLast.pos>>

\* C4's case: SetOut was called with a position earlier than the in-point
C4_SetOutBeforeIn ==
    /\ trimLast.op = "SetOut"
    /\ trimLast.preIn # <<>>
    /\ trimLast.pos < trimLast.preIn[1]

----------------------------------------------------------------------------
(* RenderWorker *)
(***************************************************************************)
(* A request is named by its sequence number; its goroutine stands at      *)
(* "idle" (not submitted), "acquire" (the first select), "render" (in      *)
(* renderFunc), "callback" (past the last select, about to call callback)  *)
(* or "done".  A step of a goroutine runs up to the next place where what  *)
(* the other goroutines do can change what it does: the staleness check    *)
(* before the render is taken with the acquire, the staleness check and    *)
(* the select after the render with the render's return, and the deferred  *)
(* release and cancel with the return they follow.  The callback is a step *)
(* of its own: nothing orders it with NextSeq, Submit or CancelAll once    *)
(* the select has chosen its default branch.                               *)
(***************************************************************************)

DefaultMaxConcurrent == 2

Requests == 1..MaxSeq

\* NewRenderWorker's choice of maxConcurrent
NewMaxConcurrent(arg) == IF arg <= 0 THEN DefaultMaxConcurrent ELSE arg

\* IsStale
IsStale(seqNum) == seqNum < latestSeq

\* the send w.semaphore <- struct{}{} can proceed
SlotFreeAlways(sem, n) == TRUE
SlotFree(sem, n) == sem < n

\* defer func() { <-w.semaphore }(): the goroutine's return takes its token
\* out of a semaphore that holds sem
SlotHeld(sem) == sem
SlotReleased(sem) == sem - 1

\* <-ctx.Done() can proceed: the context was cancelled or its deadline passed
DoneNever(s) == FALSE
Done(s) == ctx[s] = "done"

\* calling a context's cancel function: no effect on a context already done
Cancelled(c, s) == IF s # 0 /\ c[s] = "live" THEN [c EXCEPT ![s] = "done"] ELSE c

\* the goroutine's deferred cancel()
Closed(c, s) == IF c[s] = "live" THEN [c EXCEPT ![s] = "closed"] ELSE c

\* atomic.AddUint64(&w.latestSeq, 1): the new value of a counter that held v
AddOneLost(v) == v
AddOne(v) == v + 1

\* NextSeq: one atomic addition, whose result is returned
NextSeq ==
    /\ latestSeq < MaxSeq
    /\ latestSeq' = AddOne(latestSeq)
    /\ issued' = Append(issued, latestSeq')
    /\ UNCHANGED <<workerArg, maxConcurrent, semaphore, cancelFunc, pc, ctx, result, sync,
                   cbLog, superseded, delivered>>
    /\ UNCHANGED <<cacheVars, trimVars, streamVars, playerVars, uiVars, audioVars>>

\* Submit up to the start of its goroutine, for a request that holds a sequence
\* number NextSeq returned; how is "none" for Submit and "waiting" for SubmitSync
SubmitCall(s, how) ==
    /\ s <= latestSeq
    /\ pc[s] = "idle"
    /\ ctx' = [Cancelled(ctx, cancelFunc) EXCEPT ![s] = "live"]
    /\ cancelFunc' = s
    /\ pc' = [pc EXCEPT ![s] = "acquire"]
    /\ sync' = [sync EXCEPT ![s] = how]
    /\ superseded' = superseded \cup {r \in Requests : r < s /\ pc[r] = "render"}
    /\ UNCHANGED <<workerArg, maxConcurrent, semaphore, latestSeq, result, cbLog, issued, delivered>>
    /\ UNCHANGED <<cacheVars, trimVars, streamVars, playerVars, uiVars, audioVars>>

Submit(s) == SubmitCall(s, "none")

\* SubmitSync: Submit, then the caller waits in its select
SubmitSync(s) == SubmitCall(s, "waiting")

\* the first select takes a slot; then "Check if stale before starting work":
\* a stale request returns, which releases the slot and cancels its context
Acquire(s) ==
    /\ pc[s] = "acquire"
    /\ SlotFree(semaphore, maxConcurrent)
    /\ IF IsStale(s)
       THEN /\ pc' = [pc EXCEPT ![s] = "done"]
            /\ ctx' = Closed(ctx, s)
            /\ semaphore' = SlotReleased(semaphore + 1)
       ELSE /\ pc' = [pc EXCEPT ![s] = "render"]
            /\ semaphore' = semaphore + 1
            /\ UNCHANGED ctx
    /\ UNCHANGED <<workerArg, maxConcurrent, latestSeq, cancelFunc, result, sync, cbLog,
                   superseded, issued, delivered>>
    /\ UNCHANGED <<cacheVars, trimVars, streamVars, playerVars, uiVars, audioVars>>

\* the first select takes <-ctx.Done(): the goroutine returns without a slot
AcquireAbandon(s) ==
    /\ pc[s] = "acquire"
    /\ Done(s)
    /\ pc' = [pc EXCEPT ![s] = "done"]
    /\ UNCHANGED <<workerArg, maxConcurrent, semaphore, latestSeq, cancelFunc, ctx, result,
                   sync, cbLog, superseded, issued, delivered>>
    /\ UNCHANGED <<cacheVars, trimVars, streamVars, playerVars, uiVars, audioVars>>

\* the checks between the render and the callback: the request goes on to the
\* callback when it is not stale and its context is not done
PassesAlways(s) == TRUE
PassesNever(s) == FALSE
Passes(s) == ~IsStale(s) /\ ~Done(s)

\* renderFunc(ctx) returns r (a frame or an error); "Check if stale after
\* completing work" and the last select follow
RenderReturns(s, r) ==
    /\ pc[s] = "render"
    /\ result' = [result EXCEPT ![s] = r]
    /\ IF Passes(s)
       THEN /\ pc' = [pc EXCEPT ![s] = "callback"]
            /\ UNCHANGED <<semaphore, ctx>>
       ELSE /\ pc' = [pc EXCEPT ![s] = "done"]
            /\ semaphore' = SlotReleased(semaphore)
            /\ ctx' = Closed(ctx, s)
    /\ UNCHANGED <<workerArg, maxConcurrent, latestSeq, cancelFunc, sync, cbLog, superseded, issued, delivered>>
    /\ UNCHANGED <<cacheVars, trimVars, streamVars, playerVars, uiVars, audioVars>>

\* RenderResult{Frame: frame, Error: err}, for what renderFunc returned
ResultWithoutError(r) == "frame"
RenderResult(r) == r

\* callback(RenderResult{...}) and the goroutine's return; SubmitSync's callback
\* sends the result on resultChan, which the caller receives if it still waits
Callback(s) ==
    /\ pc[s] = "callback"
    /\ cbLog' = Append(cbLog, s)
    /\ delivered' = [delivered EXCEPT ![s] = RenderResult(result[s])]
    /\ sync' = [sync EXCEPT ![s] = IF sync[s] = "waiting" THEN "result" ELSE sync[s]]
    /\ pc' = [pc EXCEPT ![s] = "done"]
    /\ semaphore' = SlotReleased(semaphore)
    /\ ctx' = Closed(ctx, s)
    /\ UNCHANGED <<workerArg, maxConcurrent, latestSeq, cancelFunc, result, superseded, issued>>
    /\ UNCHANGED <<cacheVars, trimVars, streamVars, playerVars, uiVars, audioVars>>

\* RenderTimeout elapses for the context made by Submit
CtxTimeout(s) ==
    /\ ctx[s] = "live"
    /\ ctx' = [ctx EXCEPT ![s] = "done"]
    /\ UNCHANGED <<workerArg, maxConcurrent, semaphore, latestSeq, cancelFunc, pc, result,
                   sync, cbLog, superseded, issued, delivered>>
    /\ UNCHANGED <<cacheVars, trimVars, streamVars, playerVars, uiVars, audioVars>>

\* SubmitSync's time.After(RenderTimeout) has fired: the timer is started after
\* the context's, with the same duration, so the context's deadline has passed
AfterNever(s) == FALSE
AfterElapsed(s) == sync[s] = "waiting" /\ ctx[s] # "live"

\* SubmitSync's select takes the timer and returns context.DeadlineExceeded
SyncTimeout(s) ==
    /\ AfterElapsed(s)
    /\ sync' = [sync EXCEPT ![s] = "timeout"]
    /\ UNCHANGED <<workerArg, maxConcurrent, semaphore, latestSeq, cancelFunc, pc, ctx,
                   result, cbLog, superseded, issued, delivered>>
    /\ UNCHANGED <<cacheVars, trimVars, streamVars, playerVars, uiVars, audioVars>>

CancelAll ==
    /\ cancelFunc # 0
    /\ ctx' = Cancelled(ctx, cancelFunc)
    /\ cancelFunc' = 0
    /\ UNCHANGED <<workerArg, maxConcurrent, semaphore, latestSeq, pc, result, sync, cbLog,
                   superseded, issued, delivered>>
    /\ UNCHANGED <<cacheVars, trimVars, streamVars, playerVars, uiVars, audioVars>>

\* ActiveCount
ActiveCount == semaphore

----------------------------------------------------------------------------
(* RenderWorker: claims *)

Rendering == {s \in Requests : pc[s] = "render"}

CalledBack(s) == \E i \in DOMAIN cbLog : cbLog[i] = s

TimesCalledBack(s) == Cardinality({i \in DOMAIN cbLog : cbLog[i] = s})

\* C5: a request whose render function was still running when a request with a
\* later sequence number was submitted never has its callback invoked; and the
\* later request, once its goroutine has finished as the latest request without
\* its context having been cancelled or timed out, has had its callback invoked,
\* exactly once.
C5_NewerRequestWins ==
    /\ \A a \in superseded : ~CalledBack(a)
    /\ \A b \in Requests :
          (pc[b] = "done" /\ ctx[b] = "closed" /\ latestSeq = b) => TimesCalledBack(b) = 1

\* request 1 is still rendering, and request 2, submitted after it, has finished
\* and has had its callback invoked
C5_SlowOneFastTwo ==
    /\ 1 \in superseded
    /\ pc[1] = "render"
    /\ pc[2] = "done"
    /\ cbLog = <<2>>

\* C6: once the callback of a request has been invoked, no callback of a request
\* with a smaller sequence number is invoked afterwards: the callbacks are
\* invoked in increasing order of sequence number.
C6_CallbacksInSeqOrder ==
    \A i, j \in DOMAIN cbLog : i < j => cbLog[i] < cbLog[j]

\* C7: at most maxConcurrent render functions are executing, ActiveCount is
\* between 0 and maxConcurrent, and maxConcurrent is the argument of
\* NewRenderWorker, or 2 when that argument is not positive.
C7_AtMostNRendering ==
    /\ maxConcurrent = IF workerArg <= 0 THEN 2 ELSE workerArg
    /\ Cardinality(Rendering) <= maxConcurrent
    /\ ActiveCount \in 0..maxConcurrent

\* a worker made with a non-positive argument has both of its slots taken by
\* running render functions
C7_BothSlotsRendering ==
    /\ workerArg <= 0
    /\ Cardinality(Rendering) = 2
    /\ ActiveCount = 2

Returned(s) == sync[s] \in {"result", "timeout"}

\* C8 as stated: whenever the callback of a SubmitSync request fires, SubmitSync
\* returns the render result.
C8_ResultWheneverCallbackFires ==
    \A s \in Requests : (sync[s] # "none" /\ CalledBack(s)) => sync[s] \in {"waiting", "result"}

\* C8: SubmitSync always returns to its caller: the render result if the callback
\* fires while the caller still waits, and otherwise a timeout error, which it
\* returns only once the render timeout has elapsed or the request's context has
\* ended; it never blocks forever.
C8_SubmitSyncReturns ==
    /\ [](\A s \in Requests : sync[s] = "result" => CalledBack(s))
    /\ [](\A s \in Requests : sync[s] = "timeout" => ctx[s] # "live")
    /\ [][\A s \in Requests :
            (sync[s] = "waiting" /\ ~CalledBack(s) /\ CalledBack(s)') => sync'[s] = "result"]_vars
    /\ \A s \in Requests : (sync[s] = "waiting") ~> Returned(s)

\* one SubmitSync has returned its result and another its timeout error
C8_BothReturnsSeen ==
    /\ \E s \in Requests : sync[s] = "result" /\ CalledBack(s)
    /\ \E s \in Requests : sync[s] = "timeout" /\ ~CalledBack(s) /\ pc[s] = "done"

\* the context of request s was cancelled, or its deadline passed, while its
\* goroutine had not yet returned from renderFunc
EndedEarly(s) == ctx[s] = "done" /\ pc[s] \in {"acquire", "render"}

\* C21: a request whose context was cancelled (by a later Submit or by
\* CancelAll) or timed out before its render function returned never has its
\* callback invoked, and no request has its callback invoked more than once.
C21_NoCallbackOnceCancelled ==
    /\ [][\A s \in Requests :
            EndedEarly(s) => (pc'[s] # "callback" /\ ~CalledBack(s) /\ ~CalledBack(s)')]_vars
    /\ [](\A s \in Requests : TimesCalledBack(s) <= 1)

\* request 1, the latest request, was cancelled by CancelAll; its render
\* function returned a frame and its callback was not invoked
C21_CancelledRenderDropped ==
    /\ latestSeq = 1 /\ cancelFunc = 0
    /\ pc[1] = "done" /\ ctx[1] = "done" /\ result[1] = "frame"
    /\ ~CalledBack(1)

\* C22: NextSeq returns strictly increasing values, none of them twice,
\* whatever the order of its callers; IsStale(s) is true exactly when NextSeq
\* has returned a value greater than s; the value it returned last is not
\* stale.
C22_SeqFence ==
    /\ \A i, j \in DOMAIN issued : i < j => issued[i] < issued[j]
    /\ \A s \in 0..(MaxSeq + 1) : IsStale(s) <=> \E i \in DOMAIN issued : issued[i] > s
    /\ issued # <<>> => ~IsStale(issued[Len(issued)])

\* NextSeq has returned two values: the first is stale and the second is not
C22_FirstStaleSecondNot ==
    /\ Len(issued) = 2
    /\ IsStale(issued[1]) /\ ~IsStale(issued[2])

\* the goroutines that hold a slot
Holding == {s \in Requests : pc[s] \in {"render", "callback"}}

\* the render function of request s returns an error
ReturnsError(s) == pc[s] = "render" /\ pc'[s] # "render" /\ result'[s] = "error"

\* C23: when a render function returns an error, the request goes on to its
\* callback if it is the latest and its context has not ended, and the
\* callback is called with that error; a stale request calls nothing; the
\* sequence counter is left alone and the slot is given back as for a frame.
C23_ErrorForwardedOrDropped ==
    /\ [][\A s \in Requests : ReturnsError(s) =>
            /\ (~IsStale(s) /\ ctx[s] # "done") => pc'[s] = "callback"
            /\ IsStale(s) => (pc'[s] = "done" /\ cbLog' = cbLog)
            /\ latestSeq' = latestSeq]_vars
    /\ [](\A s \in Requests : (CalledBack(s) /\ result[s] = "error") => delivered[s] = "error")
    /\ [](\A s \in Requests : (pc[s] = "done" /\ ~CalledBack(s)) => delivered[s] = "none")
    /\ [](semaphore = Cardinality(Holding))

\* the render functions of both requests returned an error: the first request
\* was stale and called nothing, the callback of the second was called with
\* the error, and both slots are free again
C23_OneErrorDroppedOneForwarded ==
    /\ result[1] = "error" /\ pc[1] = "done" /\ ~CalledBack(1)
    /\ result[2] = "error" /\ pc[2] = "done" /\ delivered[2] = "error"
    /\ semaphore = 0

\* the goroutine of request s returns
Finishes(s) == pc[s] \in {"acquire", "render", "callback"} /\ pc'[s] = "done"

\* C35: a goroutine that returns leaves the semaphore as it was before it took
\* its slot, whichever return it takes, and no other step takes a token out;
\* so when no render function is running any more, ActiveCount() comes to 0
\* and stays there, and a slot is free for a later submission.
C35_SlotsReleased ==
    /\ [][\A s \in Requests : Finishes(s) =>
            semaphore' = semaphore - (IF s \in Holding THEN 1 ELSE 0)]_vars
    /\ [][semaphore' < semaphore => \E s \in Holding : Finishes(s)]_vars
    /\ [](Holding = {} => (ActiveCount = 0 /\ SlotFree(semaphore, maxConcurrent)))
    /\ (<>[](Rendering = {})) => <>[](ActiveCount = 0)

\* both requests were rendered and neither callback was called: the second,
\* which is the latest, was cancelled or timed out, and no slot is held
C35_NoCallbackSlotsBack ==
    /\ latestSeq = 2 /\ pc[1] = "done" /\ pc[2] = "done"
    /\ result[1] # "none" /\ result[2] # "none" /\ cbLog = <<>>
    /\ ActiveCount = 0

\* from some point on request s has been submitted, holds the latest sequence
\* number and is the last Submit, and no CancelAll has been called since
StaysLatest(s) == pc[s] # "idle" /\ latestSeq = s /\ cancelFunc = s

\* the callback of request s has been called, once, with what its render
\* function returned
DeliveredOnce(s) ==
    /\ pc[s] = "done" /\ TimesCalledBack(s) = 1
    /\ result[s] # "none" /\ delivered[s] = result[s]

\* C32: a request that stays the latest issued number and the last Submit,
\* with no CancelAll after it, and whose context does not reach its deadline
\* before its render function has returned, has its callback called, exactly
\* once and with the render's result, provided the goroutines run and the
\* render functions return.
C32_LatestIsDelivered ==
    \A s \in Requests :
        (<>[]StaysLatest(s) /\ []~EndedEarly(s)) => <>[]DeliveredOnce(s)

\* with one slot, the second request has had its callback called after the
\* first, which had rendered, had ended without one
C32_SecondDeliveredAfterFirst ==
    /\ maxConcurrent = 1 /\ StaysLatest(2) /\ DeliveredOnce(2)
    /\ pc[1] = "done" /\ result[1] # "none" /\ ~CalledBack(1)

----------------------------------------------------------------------------
(* FrameStream *)

HeaderSize == 14
MagicB == 66
MagicM == 77

\* a []byte of n bytes counting up from first (kept below 128)
Bytes(n, first) == [i \in 1..n |-> (first + i - 1) % 128]

\* binary.LittleEndian.PutUint32 and Uint32
PutUint32(n) ==
    <<n % 256, (n \div 256) % 256, (n \div 65536) % 256, (n \div 16777216) % 256>>
Uint32LowByte(b) == b[1]
Uint32(b) == b[1] + 256 * b[2] + 65536 * b[3] + 16777216 * b[4]

\* io.ReadFull(r, buf) with len(buf) = n on a pipe that holds p and then ends:
\* the bytes read, the error, and what is left in the pipe
ReadFull(p, n) ==
    IF n = 0 THEN [data |-> <<>>, err |-> "nil", rest |-> p]
    ELSE IF Len(p) = 0 THEN [data |-> <<>>, err |-> "EOF", rest |-> p]
    ELSE IF Len(p) < n THEN [data |-> p, err |-> "ErrUnexpectedEOF", rest |-> <<>>]
    ELSE [data |-> SubSeq(p, 1, n), err |-> "nil", rest |-> SubSeq(p, n + 1, Len(p))]

\* header[0] == 'B' && header[1] == 'M'
HasMagicAlways(header) == TRUE
HasMagic(header) == header[1] = MagicB /\ header[2] = MagicM

\* what NextFrame returns on a pipe that holds p, and what it leaves in the pipe
ParseFrame(p) ==
    LET h == ReadFull(p, HeaderSize) IN
    IF h.err # "nil" THEN [frame |-> <<>>, err |-> h.err, rest |-> h.rest]
    ELSE IF ~HasMagic(h.data)
    THEN [frame |-> <<>>, err |-> "invalid frame header", rest |-> h.rest]
    ELSE LET frameSize == Uint32(SubSeq(h.data, 3, 6)) IN
         IF frameSize < HeaderSize
         THEN [frame |-> <<>>, err |-> "invalid frame size", rest |-> h.rest]
         ELSE LET b == ReadFull(h.rest, frameSize - HeaderSize) IN
              IF b.err # "nil" THEN [frame |-> <<>>, err |-> b.err, rest |-> b.rest]
              ELSE [frame |-> h.data \o b.data, err |-> "nil", rest |-> b.rest]

NextFrame ==
    /\ Len(returned) < MaxCalls
    /\ IF stdout = "nil"
       THEN /\ returned' = Append(returned, [frame |-> <<>>, err |-> "EOF"])
            /\ UNCHANGED pipe
       ELSE LET r == ParseFrame(pipe) IN
            /\ returned' = Append(returned, [frame |-> r.frame, err |-> r.err])
            /\ pipe' = r.rest
    /\ UNCHANGED <<cmd, stdout, cancel, frames, cut, closeCalls>>
    /\ UNCHANGED <<cacheVars, trimVars, workerVars, playerVars, uiVars, audioVars>>

\* what Close leaves in s.cancel, s.cmd and s.stdout
LeftSet(v) == v
SetNil(v) == "nil"

\* Close, under s.mu: the process is cancelled and waited for if s.cancel and
\* s.cmd are set, and the pipe is closed if s.stdout is set
Close ==
    /\ Len(closeCalls) < MaxCloses
    /\ closeCalls' = Append(closeCalls, [cancelled |-> cancel # "nil", waited |-> cmd # "nil"])
    /\ cancel' = SetNil(cancel)
    /\ cmd' = SetNil(cmd)
    /\ stdout' = SetNil(stdout)
    /\ pipe' = IF stdout # "nil" THEN <<>> ELSE pipe
    /\ UNCHANGED <<frames, cut, returned>>
    /\ UNCHANGED <<cacheVars, trimVars, workerVars, playerVars, uiVars, audioVars>>

(* FrameStream: what ffmpeg may write *)

\* a chunk: 14 header bytes (two magic bytes, the declared size, 8 more) and a payload
Chunk(m0, m1, declared, payload) ==
    <<m0, m1>> \o PutUint32(declared) \o Bytes(8, 20) \o payload

\* a well-formed frame with the payload Bytes(n, first)
Frame(n, first) == Chunk(MagicB, MagicM, HeaderSize + n, Bytes(n, first))

\* payload lengths: the short ones, and one whose size field needs a second byte
PayloadLens == (0..MaxPayload) \cup {256}

GoodChunks == {Frame(n, first) : n \in PayloadLens, first \in {1, 2}}

BadChunks ==
    { Chunk(88, 88, HeaderSize, <<>>),                    \* magic XX
      Chunk(MagicB, 88, HeaderSize + 1, Bytes(1, 1)),    \* magic BX
      Chunk(MagicB, MagicM, 5, Bytes(1, 1)),             \* declared size 5
      Chunk(MagicB, MagicM, HeaderSize - 1, <<>>),       \* declared size 13
      Chunk(MagicB, MagicM, HeaderSize + 2, Bytes(1, 1)) \* payload shorter than declared
    }

Chunks == GoodChunks \cup BadChunks

StreamInputs == UNION {[1..n -> Chunks] : n \in 0..MaxFrames}

Cuts == 0..MaxCut

RECURSIVE Concat(_)
Concat(fs) == IF fs = <<>> THEN <<>> ELSE Head(fs) \o Concat(Tail(fs))

\* s without its last c bytes
Truncate(s, c) == IF c >= Len(s) THEN <<>> ELSE SubSeq(s, 1, Len(s) - c)

----------------------------------------------------------------------------
(* FrameStream: claims *)

\* a 14-byte header starting with 'B','M' whose little-endian size field at
\* offset 2 is the length of the whole frame, 14 + N, followed by N payload bytes
WellFormedFrame(f) ==
    /\ Len(f) >= 14
    /\ f[1] = 66 /\ f[2] = 77
    /\ f[3] + 256 * f[4] + 65536 * f[5] + 16777216 * f[6] = Len(f)

\* the input is a concatenation of well-formed frames
WellFormedInput == cut = 0 /\ \A i \in DOMAIN frames : WellFormedFrame(frames[i])

\* the frames from the k-th on
From(fs, k) == SubSeq(fs, k, Len(fs))

\* C9: on a concatenation of well-formed frames, successive NextFrame calls on
\* the open stream return each frame in order, byte-identical to the input and
\* so of exactly N + 14 bytes, each call consuming exactly its frame's bytes,
\* and report end-of-stream (io.EOF, no bytes) after the last frame.
C9_FramesInOrderThenEOF ==
    (WellFormedInput /\ stdout = "pipe") =>
        /\ \A k \in DOMAIN returned :
              IF k <= Len(frames)
              THEN returned[k] = [frame |-> frames[k], err |-> "nil"]
              ELSE returned[k] = [frame |-> <<>>, err |-> "EOF"]
        /\ pipe = Concat(From(frames, Len(returned) + 1))

\* two well-formed frames, the second with a 256-byte payload, both returned,
\* and end-of-stream reported by the third call
C9_TwoFramesThenEOF ==
    /\ WellFormedInput /\ stdout = "pipe"
    /\ Len(frames) = 2 /\ Len(frames[1]) = 15 /\ Len(frames[2]) = 14 + 256
    /\ Len(returned) = 3
    /\ returned[3].err = "EOF"

\* the cases of C10, for a pipe that holds p and then ends
BadMagic(p) == Len(p) >= 2 /\ (p[1] # 66 \/ p[2] # 77)
DeclaredSize(p) == p[3] + 256 * p[4] + 65536 * p[5] + 16777216 * p[6]
SizeBelowHeader(p) == Len(p) >= 6 /\ DeclaredSize(p) < 14
ShortHeader(p) == Len(p) < 14
ShortPayload(p) == Len(p) >= 14 /\ DeclaredSize(p) > Len(p)

\* the result of the NextFrame call that this step makes
LastReturned == returned'[Len(returned')]

\* C10: a NextFrame call on the open stream returns an error and no frame bytes
\* when the first two bytes are not 'B','M', when the declared size is below 14,
\* or when the stream ends before the full header or the full declared payload;
\* every call returns either an error and no bytes, or no error and a
\* well-formed frame that is the bytes it consumed: never a partial or garbled
\* frame.
C10_ErrorAndNoBytes ==
    [][(Len(returned') > Len(returned) /\ stdout = "pipe") =>
          /\ (BadMagic(pipe) \/ SizeBelowHeader(pipe) \/ ShortHeader(pipe) \/ ShortPayload(pipe))
               => (LastReturned.err # "nil" /\ LastReturned.frame = <<>>)
          /\ LastReturned.err # "nil" => LastReturned.frame = <<>>
          /\ LastReturned.err = "nil" =>
               /\ WellFormedFrame(LastReturned.frame)
               /\ pipe = LastReturned.frame \o pipe']_vars

\* every kind of error has been returned, each with no bytes: the stream was
\* a chunk with magic XX, then one with declared size 5 and one more byte, which
\* the third call found to be less than a header
C10_EveryErrorSeen ==
    /\ stdout = "pipe"
    /\ Len(returned) = 3
    /\ returned[1] = [frame |-> <<>>, err |-> "invalid frame header"]
    /\ returned[2] = [frame |-> <<>>, err |-> "invalid frame size"]
    /\ returned[3] = [frame |-> <<>>, err |-> "ErrUnexpectedEOF"]

\* the number of Close calls that called s.cancel, and that called s.cmd.Wait
Cancels == Cardinality({i \in 1..Len(closeCalls) : closeCalls[i].cancelled})
Waits == Cardinality({i \in 1..Len(closeCalls) : closeCalls[i].waited})

\* a step that is a Close made after a Close; a NextFrame made after a Close
CloseAgain == closeCalls # <<>> /\ Len(closeCalls') = Len(closeCalls) + 1
NextFrameAfterClose == closeCalls # <<>> /\ Len(returned') = Len(returned) + 1

\* C28: over any number of Close calls, which s.mu puts one after the other
\* whoever makes them, the process is cancelled once and waited for once, by
\* the first; a later Close changes nothing; and a NextFrame called after a
\* Close has returned gives an error and no frame.
C28_CloseOnceThenNoFrames ==
    /\ [](Cancels <= 1 /\ Waits <= 1)
    /\ [](closeCalls # <<>> =>
             /\ closeCalls[1].cancelled /\ closeCalls[1].waited
             /\ cancel = "nil" /\ cmd = "nil" /\ stdout = "nil")
    /\ [][CloseAgain => UNCHANGED <<cmd, stdout, cancel, pipe, returned>>]_vars
    /\ [][NextFrameAfterClose =>
             /\ returned'[Len(returned')].err # "nil"
             /\ returned'[Len(returned')].frame = <<>>]_vars

\* ffmpeg had written a whole frame; Close was called twice, and the one
\* NextFrame call there was came after them and returned io.EOF
C28_ClosedTwiceThenEOF ==
    /\ Len(frames) > 0 /\ frames[1] \in GoodChunks /\ cut = 0
    /\ Len(closeCalls) = 2 /\ ~closeCalls[2].cancelled /\ ~closeCalls[2].waited
    /\ returned = <<[frame |-> <<>>, err |-> "EOF"]>>

----------------------------------------------------------------------------
(* AudioPlayer *)

(* Start, Stop and ToggleMute hold a.mu from start to end, so each is one   *)
(* step.  An ffplay process runs until it is killed or until it has played  *)
(* the file to its end (-autoexit).                                         *)

\* a.cmd == nil
NilCmd == [id |-> 0, started |-> FALSE]

\* stopLocked's condition: a.cmd != nil && a.cmd.Process != nil
HasProcess(c) == c.id # 0 /\ c.started

\* stopLocked: what is left in a.cmd
StopLockedCmd(c) == IF HasProcess(c) THEN NilCmd ELSE c

\* stopLocked: the processes that run after Process.Kill and Wait
NoneKilled(c, live) == live
StopLockedLive(c, live) == IF HasProcess(c) THEN live \ {c.id} ELSE live

AudioCall(op) ==
    /\ Len(audioLog) < MaxAudioCalls
    /\ audioLog' = Append(audioLog, op)

\* Start: nothing when muted; otherwise stopLocked, a new exec.Command and
\* cmd.Start, which starts the process (ok) or fails and leaves cmd.Process nil
AudioStart(ok) ==
    /\ AudioCall(IF muted THEN "StartMuted" ELSE IF ok THEN "Start" ELSE "StartFailed")
    /\ IF muted
       THEN UNCHANGED <<audioCmd, audioLive, audioSpawned>>
       ELSE /\ audioSpawned' = audioSpawned + 1
            /\ audioCmd' = [id |-> audioSpawned + 1, started |-> ok]
            /\ audioLive' = StopLockedLive(audioCmd, audioLive) \cup
                               (IF ok THEN {audioSpawned + 1} ELSE {})
    /\ UNCHANGED muted
    /\ UNCHANGED <<cacheVars, trimVars, workerVars, streamVars, playerVars, uiVars>>

\* Stop
AudioStop ==
    /\ AudioCall("Stop")
    /\ audioCmd' = StopLockedCmd(audioCmd)
    /\ audioLive' = StopLockedLive(audioCmd, audioLive)
    /\ UNCHANGED <<muted, audioSpawned>>
    /\ UNCHANGED <<cacheVars, trimVars, workerVars, streamVars, playerVars, uiVars>>

\* if a.muted, after a.muted = !a.muted has made it m
MutingStopsNever(m) == FALSE
MutingStops(m) == m

\* ToggleMute: stopLocked when the player becomes muted
ToggleMute ==
    /\ AudioCall("ToggleMute")
    /\ muted' = ~muted
    /\ IF MutingStops(~muted)
       THEN /\ audioCmd' = StopLockedCmd(audioCmd)
            /\ audioLive' = StopLockedLive(audioCmd, audioLive)
       ELSE UNCHANGED <<audioCmd, audioLive>>
    /\ UNCHANGED audioSpawned
    /\ UNCHANGED <<cacheVars, trimVars, workerVars, streamVars, playerVars, uiVars>>

\* ffplay -autoexit: a running process ends by itself
AudioExit(id) ==
    /\ id \in audioLive
    /\ audioLive' = audioLive \ {id}
    /\ UNCHANGED <<audioCmd, muted, audioSpawned, audioLog>>
    /\ UNCHANGED <<cacheVars, trimVars, workerVars, streamVars, playerVars, uiVars>>

----------------------------------------------------------------------------
(* AudioPlayer: claims *)

\* a step that is a call of an AudioPlayer method, and the last call's name
AudioStep == Len(audioLog') = Len(audioLog) + 1
LastAudioCall == audioLog'[Len(audioLog')]

\* C29: at most one ffplay process runs at any time, and it is the one a.cmd
\* holds; a Start that spawns leaves no process but the one it spawned; a
\* Start made while muted spawns nothing and changes nothing; a Stop made when
\* a.cmd holds no process changes nothing.
C29_OneAudioProcess ==
    /\ [](Cardinality(audioLive) <= 1)
    /\ [](\A id \in audioLive : HasProcess(audioCmd) /\ audioCmd.id = id)
    /\ [](muted => audioLive = {})
    /\ [][AudioStep =>
             /\ (LastAudioCall \in {"Start", "StartFailed"}) =>
                   (~muted /\ audioSpawned' = audioSpawned + 1
                    /\ audioLive' \subseteq {audioSpawned'})
             /\ LastAudioCall = "StartMuted" =>
                   (muted /\ UNCHANGED <<audioCmd, muted, audioLive, audioSpawned>>)
             /\ (LastAudioCall = "Stop" /\ ~HasProcess(audioCmd)) =>
                   UNCHANGED <<audioCmd, muted, audioLive, audioSpawned>>
             /\ LastAudioCall \in {"Stop", "ToggleMute"} =>
                   (audioSpawned' = audioSpawned /\ audioLive' \subseteq audioLive)]_vars

\* Start was called twice and both ffplay processes started: the second one
\* runs and the first does not
C29_SecondStartReplacesFirst ==
    /\ audioLog = <<"Start", "Start">>
    /\ audioSpawned = 2 /\ audioLive = {2} /\ audioCmd.id = 2

\* a step that is a call of ToggleMute
ToggleMuteStep == AudioStep /\ LastAudioCall = "ToggleMute"

\* C36: while the AudioPlayer is muted no ffplay process runs and a.cmd holds
\* none; a ToggleMute that mutes ends with no process running, and one that
\* unmutes only clears the flag: it starts no process and leaves a.cmd alone.
C36_MutedMeansSilent ==
    /\ [](muted => (audioLive = {} /\ ~HasProcess(audioCmd)))
    /\ [][(ToggleMuteStep /\ ~muted) => (muted' /\ audioLive' = {})]_vars
    /\ [][(ToggleMuteStep /\ muted) =>
             (~muted' /\ UNCHANGED <<audioCmd, audioLive, audioSpawned>>)]_vars

\* audio was started, then muted; a Start made while muted and the unmute
\* that followed have started nothing
C36_UnmutedAndStillSilent ==
    /\ audioLog = <<"Start", "ToggleMute", "StartMuted", "ToggleMute">>
    /\ ~muted /\ audioLive = {} /\ audioSpawned = 1 /\ audioCmd = NilCmd

----------------------------------------------------------------------------
(* Player *)
(***************************************************************************)
(* The Player's methods are called by one caller, one after the other; a   *)
(* method is a step for its part under p.mu and a step for what it does    *)
(* after the unlock (its tail), and the playbackLoop goroutines take their *)
(* steps in between.  A playbackLoop stands at "top" (the select on        *)
(* stopChan, the locked read of the fields and the stream check),          *)
(* "publish" (p.stream = stream), "read" (NextFrame and the conversion),   *)
(* "commit" (cache.Put and the locked update), "stopAudio" or "done".      *)
(***************************************************************************)

StreamIds == 1..(2 * MaxPlays + 1)
LoopIds == 1..MaxPlays

NoStream == [live |-> FALSE, start |-> 0, w |-> 0, h |-> 0, f |-> 0, seeks |-> 0]
NoLoop == [pc |-> "none", cur |-> 0, pos |-> 0, interval |-> 0, q |-> 0, seen |-> 0,
           dropped |-> FALSE, failed |-> FALSE]
NoCall == [op |-> "none", stream |-> 0]
NoCommit == [key |-> -1, seeks |-> 0, plays |-> 0]
NoSeek == [n |-> 0, pos |-> 0]

\* FrameStream.Close on stream id (a nil stream is never closed)
LeftOpen(ss, id) == ss
CloseStream(ss, id) == IF id = 0 THEN ss ELSE [ss EXCEPT ![id].live = FALSE]

\* FrameStream.NeedsRestart
NeedsRestart(st, w, h, f) == st.w # w \/ st.h # h \/ st.f # f

\* a FrameStream that something still points to
Referenced(id) ==
    \/ stream = id
    \/ inCall.stream = id
    \/ \E l \in LoopIds : loops[l].cur = id

\* the number given to the next FrameStream: one that names no stream in use
NewStreamId ==
    CHOOSE id \in StreamIds :
        /\ ~Referenced(id) /\ ~streams[id].live
        /\ \A j \in StreamIds : (~Referenced(j) /\ ~streams[j].live) => id <= j

\* Seek's clamp of position into [0, duration]
ClampLow(pos, d) == IF pos < 0 THEN 0 ELSE pos
Clamp(pos, d) ==
    LET p1 == IF pos < 0 THEN 0 ELSE pos
    IN  IF p1 > d THEN d ELSE p1

\* Play's frameInterval
PlayIntervalZero(f) == 0
PlayInterval(f) == IF f > 0 THEN Second \div f ELSE Second \div 24

\* the last call of renderFrameCached: its cache key, whether cache.Get hit,
\* whether renderFrame would succeed, and the frame it left in p.currentFrame
NoRender == [n |-> 0, key |-> CacheKey(0, 0, 0, 0), hit |-> FALSE, ok |-> FALSE,
             frame |-> <<>>]

\* what renderFrame returns for pos when it succeeds
StillFrame(pos) == <<"still", pos>>

\* what a render that fails leaves in p.currentFrame
Blanked(cf) == <<>>
Kept(cf) == cf

\* what renderFrameCached gives to cache.Put after a miss: the frame rendered
StoredElsewhere(frame) == <<"lost">>
Rendered(frame) == frame

\* renderFrameCached(pos, w, h, q): cache.Get, and on a miss renderFrame, which
\* fails when ok is FALSE, cache.Put and p.currentFrame = frame.  The caller is
\* not playing, so no playbackLoop sets currentFrame meanwhile.
RenderFrameCached(pos, w, h, q, ok) ==
    LET key == CacheKey(quantizePosition(fps, pos), w, h, q) IN
    /\ IF key \in items
       THEN /\ order' = GetPromote(order, key)
            /\ currentFrame' = order[IndexOf(order, key)].frame
            /\ UNCHANGED items
       ELSE IF ok
       THEN /\ order' = OrderAfterPut(order, items, capacity, key, Rendered(StillFrame(pos)))
            /\ items' = ItemsAfterPut(order, items, capacity, key)
            /\ currentFrame' = StillFrame(pos)
       ELSE /\ currentFrame' = Kept(currentFrame)
            /\ UNCHANGED <<items, order>>
    /\ renderLast' = [n |-> renderLast.n + 1, key |-> key, hit |-> key \in items, ok |-> ok,
                      frame |-> currentFrame']
    /\ UNCHANGED <<capacity, fps, panicked, tick, used, cacheLast>>

\* a method that does not call renderFrameCached
SkipRender == UNCHANGED <<cacheVars, currentFrame, renderLast>>

\* p.stopChan = make(chan struct{}): a channel that has no name yet
SameChan(c) == c
MakeChan(c) == c + 1

\* Play under p.mu, audioPlayer.Start and go p.playbackLoop()
PlayBody ==
    IF playing
    THEN UNCHANGED <<playing, stopChan, frameInterval, audio, loops, paused>>
    ELSE /\ stopChan < MaxPlays
         /\ playing' = TRUE
         /\ stopChan' = MakeChan(stopChan)
         /\ frameInterval' = PlayInterval(playerFps)
         /\ audio' = "running"
         /\ loops' = [loops EXCEPT ![stopChan + 1] = [NoLoop EXCEPT !.pc = "top",
                                                                  !.seen = stopChan + 1]]
         /\ paused' = FALSE

Play ==
    /\ inCall.op = "none" /\ calls < MaxApi
    /\ calls' = calls + 1
    /\ PlayBody
    /\ UNCHANGED <<duration, quality, renderLast, position, playerFps, width, height, currentFrame, closedChans,
                   stream, streams, inCall, seeks, seeksReturned, lastCommit>>
    /\ UNCHANGED <<cacheVars, trimVars, workerVars, streamVars, uiVars, audioVars>>

\* Pause under p.mu, for a Player that is playing; op is the method the caller is in
PauseBody(op) ==
    /\ playing
    /\ playing' = FALSE
    /\ closedChans' = closedChans \cup {stopChan}
    /\ inCall' = [op |-> op, stream |-> stream, pos |-> position, w |-> width, h |-> height,
                  q |-> quality]
    /\ stream' = 0

Pause ==
    /\ inCall.op = "none" /\ calls < MaxApi
    /\ calls' = calls + 1
    /\ IF playing THEN PauseBody("Pause") ELSE UNCHANGED <<playing, closedChans, inCall, stream>>
    /\ UNCHANGED <<duration, quality, renderLast, position, playerFps, width, height, frameInterval, currentFrame,
                   stopChan, streams, audio, loops, seeks, seeksReturned, paused, lastCommit>>
    /\ UNCHANGED <<cacheVars, trimVars, workerVars, streamVars, uiVars, audioVars>>

\* Pause after the unlock: audioPlayer.Stop, stream.Close, renderFrameCached
\* (Close's second audioPlayer.Stop changes nothing more)
PauseTail(ok) ==
    /\ inCall.op \in {"Pause", "Close"}
    /\ audio' = "stopped"
    /\ streams' = CloseStream(streams, inCall.stream)
    /\ IF inCall.w > 0 /\ inCall.h > 0
       THEN RenderFrameCached(inCall.pos, inCall.w, inCall.h, inCall.q, ok)
       ELSE SkipRender
    /\ paused' = TRUE
    /\ inCall' = NoCall
    /\ UNCHANGED <<duration, quality, position, playing, playerFps, width, height,
                   frameInterval, stopChan, closedChans, stream, loops, calls, seeks,
                   seeksReturned, lastCommit>>
    /\ UNCHANGED <<trimVars, workerVars, streamVars, uiVars, audioVars>>

\* Player.Close: Pause, then audioPlayer.Stop
PlayerClose ==
    /\ inCall.op = "none" /\ calls < MaxApi
    /\ calls' = calls + 1
    /\ IF playing
       THEN PauseBody("Close") /\ UNCHANGED audio
       ELSE audio' = "stopped" /\ UNCHANGED <<playing, closedChans, inCall, stream>>
    /\ UNCHANGED <<duration, quality, renderLast, position, playerFps, width, height, frameInterval, currentFrame,
                   stopChan, streams, loops, seeks, seeksReturned, paused, lastCommit>>
    /\ UNCHANGED <<cacheVars, trimVars, workerVars, streamVars, uiVars, audioVars>>

\* Toggle's locked read of p.playing
Toggle ==
    /\ inCall.op = "none" /\ calls < MaxApi
    /\ calls' = calls + 1
    /\ inCall' = [op |-> "Toggle", stream |-> 0, playing |-> playing]
    /\ UNCHANGED <<duration, quality, renderLast, position, playing, playerFps, width,
                   height, frameInterval,
                   currentFrame, stopChan, closedChans, stream, streams, audio, loops, seeks,
                   seeksReturned, paused, lastCommit>>
    /\ UNCHANGED <<cacheVars, trimVars, workerVars, streamVars, uiVars, audioVars>>

\* Toggle's call of Pause or Play
ToggleCall ==
    /\ inCall.op = "Toggle"
    /\ IF inCall.playing
       THEN /\ IF playing THEN PauseBody("Pause")
                          ELSE inCall' = NoCall /\ UNCHANGED <<playing, closedChans, stream>>
            /\ UNCHANGED <<stopChan, frameInterval, audio, loops, paused>>
       ELSE /\ PlayBody
            /\ inCall' = NoCall
            /\ UNCHANGED <<closedChans, stream>>
    /\ UNCHANGED <<duration, quality, renderLast, position, playerFps, width, height, currentFrame, streams, calls,
                   seeks, seeksReturned, lastCommit>>
    /\ UNCHANGED <<cacheVars, trimVars, workerVars, streamVars, uiVars, audioVars>>

\* Seek under p.mu, storing newPos, the clamped position
SeekBody(target, newPos) ==
    /\ position' = newPos
    /\ seeks' = seeks + 1
    /\ inCall' = [op |-> "Seek", stream |-> stream, pos |-> newPos, w |-> width,
                  h |-> height, q |-> quality, playing |-> playing, target |-> target]
    /\ stream' = 0
    /\ UNCHANGED <<duration, quality, renderLast, playing, playerFps, width, height, frameInterval, currentFrame,
                   stopChan, closedChans, streams, audio, loops, seeksReturned, paused,
                   lastCommit>>

Seek(target) ==
    /\ inCall.op = "none" /\ calls < MaxApi
    /\ calls' = calls + 1
    /\ SeekBody(target, Clamp(target, duration))
    /\ UNCHANGED <<cacheVars, trimVars, workerVars, streamVars, uiVars, audioVars>>

\* Seek after the unlock
SeekTail(ok) ==
    /\ inCall.op = "Seek"
    /\ audio' = IF inCall.playing THEN "running" ELSE "stopped"
    /\ streams' = IF inCall.playing THEN CloseStream(streams, inCall.stream) ELSE streams
    /\ IF ~inCall.playing /\ inCall.w > 0 /\ inCall.h > 0
       THEN RenderFrameCached(inCall.pos, inCall.w, inCall.h, inCall.q, ok)
       ELSE SkipRender
    /\ seeksReturned' = IF inCall.playing THEN [n |-> seeks, pos |-> inCall.pos]
                        ELSE seeksReturned
    /\ inCall' = NoCall
    /\ UNCHANGED <<duration, quality, position, playing, playerFps, width, height,
                   frameInterval, stopChan, closedChans, stream, loops, calls, seeks, paused,
                   lastCommit>>
    /\ UNCHANGED <<trimVars, workerVars, streamVars, uiVars, audioVars>>

\* SetSize under p.mu
SetSize(w, h) ==
    /\ inCall.op = "none" /\ calls < MaxApi
    /\ calls' = calls + 1
    /\ width' = w
    /\ height' = h
    /\ inCall' = IF ~playing /\ w > 0 /\ h > 0 /\ (w # width \/ h # height)
               THEN [op |-> "SetSize", stream |-> 0, pos |-> position, w |-> w, h |-> h,
                     q |-> quality]
               ELSE NoCall
    /\ UNCHANGED <<duration, quality, renderLast, position, playing, playerFps, frameInterval, currentFrame,
                   stopChan, closedChans, stream, streams, audio, loops, seeks, seeksReturned,
                   paused, lastCommit>>
    /\ UNCHANGED <<cacheVars, trimVars, workerVars, streamVars, uiVars, audioVars>>

\* SetSize's renderFrameCached
SetSizeTail(ok) ==
    /\ inCall.op = "SetSize"
    /\ RenderFrameCached(inCall.pos, inCall.w, inCall.h, inCall.q, ok)
    /\ inCall' = NoCall
    /\ UNCHANGED <<duration, quality, position, playing, playerFps, width, height,
                   frameInterval, stopChan, closedChans, stream, streams, audio, loops, calls,
                   seeks, seeksReturned, paused, lastCommit>>
    /\ UNCHANGED <<trimVars, workerVars, streamVars, uiVars, audioVars>>

\* QualityPreset.Next
QualityNext(q) == (q + 1) % 3

\* CycleQuality under p.mu
CycleQuality ==
    /\ inCall.op = "none" /\ calls < MaxApi
    /\ calls' = calls + 1
    /\ quality' = QualityNext(quality)
    /\ inCall' = IF ~playing /\ width > 0 /\ height > 0
               THEN [op |-> "CycleQuality", stream |-> 0, pos |-> position, w |-> width,
                     h |-> height, q |-> QualityNext(quality)]
               ELSE NoCall
    /\ UNCHANGED <<duration, renderLast, position, playing, playerFps, width, height,
                   frameInterval, currentFrame, stopChan, closedChans, stream, streams, audio,
                   loops, seeks, seeksReturned, paused, lastCommit>>
    /\ UNCHANGED <<cacheVars, trimVars, workerVars, streamVars, uiVars, audioVars>>

\* CycleQuality's renderFrameCached
CycleQualityTail(ok) ==
    /\ inCall.op = "CycleQuality"
    /\ RenderFrameCached(inCall.pos, inCall.w, inCall.h, inCall.q, ok)
    /\ inCall' = NoCall
    /\ UNCHANGED <<duration, quality, position, playing, playerFps, width, height,
                   frameInterval, stopChan, closedChans, stream, streams, audio, loops, calls,
                   seeks, seeksReturned, paused, lastCommit>>
    /\ UNCHANGED <<trimVars, workerVars, streamVars, uiVars, audioVars>>

(* Player.playbackLoop *)

\* the loop returns: its deferred func closes currentStream (dropped: it
\* returns with a frame it has read and does not commit)
LoopReturns(l, dropped) ==
    /\ loops' = [loops EXCEPT ![l].pc = "done", ![l].cur = 0, ![l].dropped = dropped]
    /\ streams' = CloseStream(streams, loops[l].cur)

\* the start NewFrameStream is given: pos, the position read under p.mu
StreamStartZero(pos) == 0
StreamStart(pos) == pos

\* if !p.playing, before the frame is committed
NotPlayingNever(pl) == FALSE
NotPlaying(pl) == ~pl

\* One turn of the loop up to its stream: the select on p.stopChan, the locked
\* read of the fields and the stream check, where a missing or outdated stream
\* is closed and replaced by NewFrameStream(p.path, pos, width, height, fps),
\* which fails when ok is FALSE.  p.stopChan is read without p.mu: the loop
\* finds the channel it saw when it last held p.mu or the one Play has stored
\* since.
LoopTop(l, ok) ==
    /\ loops[l].pc = "top"
    /\ \E c \in {loops[l].seen, stopChan} :
          IF c \in closedChans \/ ~playing
          THEN LoopReturns(l, FALSE)
          ELSE IF width <= 0 \/ height <= 0
          THEN /\ loops' = [loops EXCEPT ![l].seen = stopChan]
               /\ UNCHANGED streams
          ELSE LET f == IF playerFps <= 0 THEN 24 ELSE playerFps
                   me == [loops[l] EXCEPT !.pos = position, !.interval = frameInterval,
                                          !.q = quality, !.seen = stopChan]
                   closed == CloseStream(streams, me.cur)
               IN  IF me.cur # 0 /\ ~NeedsRestart(streams[me.cur], width, height, f)
                   THEN /\ loops' = [loops EXCEPT ![l] = [me EXCEPT !.pc = "read"]]
                        /\ UNCHANGED streams
                   ELSE IF ok
                   THEN /\ streams' = [closed EXCEPT ![NewStreamId] =
                                          [live |-> TRUE, start |-> StreamStart(position), w |-> width,
                                           h |-> height, f |-> f, seeks |-> seeks]]
                        /\ loops' = [loops EXCEPT ![l] =
                                        [me EXCEPT !.pc = "publish", !.cur = NewStreamId]]
                   ELSE /\ streams' = closed
                        /\ loops' = [loops EXCEPT ![l] = [me EXCEPT !.failed = TRUE]]
    /\ UNCHANGED <<duration, quality, renderLast, position, playing, playerFps, width,
                   height, frameInterval,
                   currentFrame, stopChan, closedChans, stream, audio, inCall, calls, seeks,
                   seeksReturned, paused, lastCommit>>
    /\ UNCHANGED <<cacheVars, trimVars, workerVars, streamVars, uiVars, audioVars>>

\* p.stream = stream, under p.mu
LoopPublish(l) ==
    /\ loops[l].pc = "publish"
    /\ stream' = loops[l].cur
    /\ loops' = [loops EXCEPT ![l].pc = "read", ![l].seen = stopChan]
    /\ UNCHANGED <<duration, quality, renderLast, position, playing, playerFps, width,
                   height, frameInterval,
                   currentFrame, stopChan, closedChans, streams, audio, inCall, calls, seeks,
                   seeksReturned, paused, lastCommit>>
    /\ UNCHANGED <<cacheVars, trimVars, workerVars, streamVars, uiVars, audioVars>>

\* currentStream.NextFrame() and renderFrameFromBytes: a frame, an error of
\* NextFrame (always, on a closed stream), or an error of the conversion
LoopRead(l, outcome) ==
    /\ loops[l].pc = "read"
    /\ LET me == loops[l] IN
       IF ~streams[me.cur].live \/ outcome = "readError"
       THEN /\ streams' = CloseStream(streams, me.cur)
            /\ loops' = [loops EXCEPT ![l].pc = "top", ![l].cur = 0, ![l].failed = TRUE]
       ELSE /\ loops' = [loops EXCEPT ![l].pc = IF outcome = "frame" THEN "commit" ELSE "top"]
            /\ UNCHANGED streams
    /\ UNCHANGED <<duration, quality, renderLast, position, playing, playerFps, width,
                   height, frameInterval,
                   currentFrame, stopChan, closedChans, stream, audio, inCall, calls, seeks,
                   seeksReturned, paused, lastCommit>>
    /\ UNCHANGED <<cacheVars, trimVars, workerVars, streamVars, uiVars, audioVars>>

\* if p.position >= p.duration, after the advance
AtEndNever(pos, d) == FALSE
AtEnd(pos, d) == pos >= d

\* p.cache.Put(pos, width, height, quality, frame) and the locked update: the
\* frame is cached in any case; it is dropped when the Player is not playing,
\* otherwise it becomes currentFrame and position advances, and playback ends
\* when position reaches duration
LoopCommit(l) ==
    /\ loops[l].pc = "commit"
    /\ LET me == loops[l]
           key == CacheKey(quantizePosition(fps, me.pos), streams[me.cur].w,
                           streams[me.cur].h, me.q)
       IN  /\ order' = OrderAfterPut(order, items, capacity, key, <<"stream", me.pos>>)
           /\ items' = ItemsAfterPut(order, items, capacity, key)
           /\ IF NotPlaying(playing)
              THEN /\ LoopReturns(l, TRUE)
                   /\ UNCHANGED <<position, playing, currentFrame, stream, lastCommit>>
              ELSE /\ currentFrame' = <<"stream", me.pos>>
                   /\ lastCommit' = [key |-> me.pos, seeks |-> seeks, plays |-> stopChan]
                   /\ IF AtEnd(position + me.interval, duration)
                      THEN /\ position' = duration
                           /\ playing' = FALSE
                           /\ streams' = CloseStream(streams, me.cur)
                           /\ stream' = 0
                           /\ loops' = [loops EXCEPT ![l].pc = "stopAudio", ![l].cur = 0]
                      ELSE /\ position' = position + me.interval
                           /\ loops' = [loops EXCEPT ![l].pc = "top", ![l].seen = stopChan]
                           /\ UNCHANGED <<playing, streams, stream>>
    /\ UNCHANGED <<duration, quality, renderLast, playerFps, width, height, frameInterval,
                   stopChan, closedChans, audio, inCall, calls, seeks, seeksReturned, paused>>
    /\ UNCHANGED <<capacity, fps, panicked, tick, used, cacheLast>>
    /\ UNCHANGED <<trimVars, workerVars, streamVars, uiVars, audioVars>>

\* p.audioPlayer.Stop() when playback has ended, and the loop's return
LoopStopAudio(l) ==
    /\ loops[l].pc = "stopAudio"
    /\ audio' = "stopped"
    /\ loops' = [loops EXCEPT ![l].pc = "done"]
    /\ UNCHANGED <<duration, quality, renderLast, position, playing, playerFps, width,
                   height, frameInterval,
                   currentFrame, stopChan, closedChans, stream, streams, inCall, calls, seeks,
                   seeksReturned, paused, lastCommit>>
    /\ UNCHANGED <<cacheVars, trimVars, workerVars, streamVars, uiVars, audioVars>>

----------------------------------------------------------------------------
(* Player: claims *)

\* this step is Seek's locked part
SeekStep == seeks' = seeks + 1

\* C11: Seek(p) sets position to p clamped into [0, duration], whether the
\* Player is playing or stopped: 0 for a negative p, duration for a p greater
\* than duration, and p otherwise.
C11_SeekClamps ==
    [][SeekStep =>
          LET p == inCall'.target IN
          /\ p < 0 => position' = 0
          /\ p > duration => position' = duration
          /\ (0 <= p /\ p <= duration) => position' = p
          /\ 0 <= position' /\ position' <= duration]_vars

\* Seek past the end of a playing Player has set position to duration
C11_SeekPastEndWhilePlaying ==
    /\ inCall.op = "Seek" /\ inCall.playing
    /\ inCall.target > duration
    /\ position = duration

\* playback has ended at the end of the video
PlaybackEnded ==
    /\ ~playing
    /\ position = duration
    /\ stream = 0
    /\ \A id \in StreamIds : ~streams[id].live
    /\ audio = "stopped"
    /\ \A l \in LoopIds : loops[l].pc \in {"none", "done"}

\* this step is a failure of NewFrameStream, of NextFrame on a stream that is
\* not closed, or of the conversion of a frame
DecoderFails ==
    \/ \E l \in LoopIds : LoopTop(l, FALSE) /\ ~LoopTop(l, TRUE)
    \/ \E l \in LoopIds, o \in {"readError", "renderError"} :
          LoopRead(l, o) /\ ~LoopRead(l, "frame")

Commits(l) ==
    /\ loops[l].pc = "commit"
    /\ loops'[l].pc \in {"top", "stopAudio"}

\* the loops that have been started and have not returned
Running == {l \in LoopIds : loops[l].pc \notin {"none", "done"}}

\* C13: at most one playbackLoop is running for a Player: Play while playing
\* starts no loop, and a loop started by an earlier Play commits no frame once
\* it was paused, even when Play is called again right after Pause: only the
\* loop of the latest Play commits frames.
C13_OneLoopAtATime ==
    [][/\ playing => \A l \in LoopIds : loops[l].pc = "none" => loops'[l].pc = "none"
       /\ \A l \in LoopIds : Commits(l) => l = stopChan]_vars

\* the decoder processes that run: the streams opened and not closed
Live == {id \in StreamIds : streams[id].live}

\* C14: at most one live FrameStream exists per Player at every moment: when a
\* stream is opened, every stream opened before it has been closed.
C14_OneLiveStream == Cardinality(Live) <= 1

\* the stream loop l reads was opened before the last Seek made while playing
\* stored its position, and at another position
PreSeekStream(l) ==
    /\ streams[loops[l].cur].seeks < seeksReturned.n
    /\ streams[loops[l].cur].start # seeksReturned.pos

\* C16: after a Seek made while playing has returned, no frame a loop commits
\* (sets as currentFrame and advances position for) comes from a stream that
\* was opened at the position held before the Seek.
C16_FramesFromPostSeekStream ==
    [][\A l \in LoopIds : (Commits(l) /\ playing) => ~PreSeekStream(l)]_vars

\* a step of a playbackLoop
LoopActs == loops' # loops /\ stopChan' = stopChan

\* C17: once Pause has returned and until the next Play, no step of a
\* playbackLoop changes position or currentFrame; a frame that was read
\* before the stop is dropped.
C17_NoCommitAfterPause ==
    [][(paused /\ LoopActs) => (position' = position /\ currentFrame' = currentFrame)]_vars

\* Pause has returned and the loop has returned with a frame it did not commit
C17_FrameDropped == paused /\ \E l \in LoopIds : loops[l].dropped

\* C18: after Pause has returned from the playing state and until the next
\* Play, playing is false, the audio process is stopped and p.stream is nil.
C18_PausedAndTornDown == paused => (~playing /\ audio = "stopped" /\ stream = 0)

\* the commit before this one was made in the same playback, and Seek has
\* never been called
NextInPlayback == lastCommit.key >= 0 /\ lastCommit.plays = stopChan /\ seeks = 0

\* C19: during playback without a Seek, a frame is committed under the
\* position held before the advance, and that position is exactly one frame
\* interval after the one of the frame committed before it.
C19_CommitsOneIntervalApart ==
    [][\A l \in LoopIds :
          (Commits(l) /\ playing /\ NextInPlayback) =>
              /\ loops[l].pos = position
              /\ loops[l].pos = lastCommit.key + frameInterval]_vars

\* Pause, called directly, by Close or by Toggle, clears playing
PauseStep == inCall.op \in {"none", "Toggle"} /\ inCall'.op \in {"Pause", "Close"}

\* a loop commits the frame with which position reaches duration
EndStep == position' = duration /\ \E l \in LoopIds : Commits(l)

\* NextFrame fails in loop l: the stream is closed and let go
ReadFails(l) == loops[l].pc = "read" /\ loops'[l].pc = "top" /\ loops'[l].cur = 0

\* loop l opens a stream
Opens(l) == loops[l].pc = "top" /\ loops'[l].pc = "publish"

\* C20: a failure to open a stream, a read error and an end of stream leave
\* playing as it is; the failed stream is closed and the next stream is opened
\* at the position the Player has when the loop reads it, under p.mu, at the
\* top of that turn; playing goes from true to false only in Pause (Close,
\* Toggle) or when a commit takes position to duration.
C20_FailuresDoNotStopPlayback ==
    [][/\ (playing /\ ~playing') => (PauseStep \/ EndStep)
       /\ \A l \in LoopIds :
             /\ ReadFails(l) => (playing' = playing /\ ~streams'[loops[l].cur].live)
             /\ Opens(l) => /\ playing' = playing
                            /\ streams'[loops'[l].cur].live
                            /\ streams'[loops'[l].cur].start = position]_vars

\* a loop whose stream has failed reads from a new stream, opened at the
\* position of a Player that is still playing and is past the start
C20_ReopenedWhilePlaying ==
    /\ playing /\ position > 0
    /\ \E l \in LoopIds :
          /\ loops[l].failed /\ loops[l].pc = "read"
          /\ streams[loops[l].cur].live /\ streams[loops[l].cur].start = position

\* a step in which renderFrameCached runs
RenderStep == renderLast'.n = renderLast.n + 1

\* C24: a renderFrameCached that misses the cache and whose renderFrame fails
\* leaves currentFrame and the cache's entries and their order as they were,
\* and the method that called it (Seek, Pause, also from Close, SetSize,
\* CycleQuality) returns with its change of position, playing, size or quality
\* in place.
C24_FailedRenderChangesNothing ==
    [][(RenderStep /\ ~renderLast'.hit /\ ~renderLast'.ok) =>
          /\ currentFrame' = currentFrame /\ items' = items /\ order' = order
          /\ inCall.op \in {"Seek", "Pause", "Close", "SetSize", "CycleQuality"}
          /\ inCall' = NoCall
          /\ ~playing' /\ position' = inCall.pos
          /\ width' = inCall.w /\ height' = inCall.h /\ quality' = inCall.q]_vars

\* the second render of a Player missed and failed: the frame of the first is
\* still shown and the cache holds the first render's entry only
C24_FrameKeptAfterFailedRender ==
    /\ renderLast.n = 2 /\ ~renderLast.hit /\ ~renderLast.ok
    /\ currentFrame # <<>> /\ renderLast.frame = currentFrame
    /\ Cardinality(items) = 1 /\ renderLast.key \notin items
    /\ inCall = NoCall

C31_PositionInRange == 0 <= position /\ position <= duration

\* a loop has committed a frame after a Seek made during playback, and the
\* advance from the sought position has stayed inside the video
C31_AdvancedAfterSeek ==
    /\ playing /\ seeks > 0 /\ lastCommit.seeks = seeks /\ lastCommit.plays = stopChan
    /\ position = 400000000 + frameInterval /\ position < duration

\* loop l returns in this step: on the stop signal or on playing = false
\* (to "done"), or at the end of the video (to "stopAudio", its Stop pending)
LoopExits(l) ==
    /\ loops[l].pc \in {"top", "publish", "read", "commit"}
    /\ loops'[l].pc \in {"done", "stopAudio"}

\* C33: a FrameStream is open only while the loop that opened it runs and
\* holds it as currentStream; the step in which a loop returns, on any of its
\* three ways out, leaves the stream it held closed.
C33_NoStreamOutlivesLoop ==
    /\ [](\A id \in Live :
             \E l \in LoopIds :
                 loops[l].pc \in {"top", "publish", "read", "commit"} /\ loops[l].cur = id)
    /\ [][\A l \in LoopIds :
             (LoopExits(l) /\ loops[l].cur # 0) => ~streams'[loops[l].cur].live]_vars

\* two loops have returned at the end of the video, the second after it has
\* committed a frame of a stream it opened, and no stream is open
C33_LoopsGoneStreamsClosed ==
    /\ Live = {} /\ Running = {}
    /\ loops[1].pc = "done" /\ loops[2].pc = "done"
    /\ position = duration /\ lastCommit.plays = 2
    /\ \E id \in StreamIds : streams[id].w > 0

\* C34: the channel a Pause closes (in Pause, Toggle or Close) has not been
\* closed before: while the Player is playing its stop channel is open, and
\* nothing but the Pause that ends the playing closes it.
C34_StopChanClosedOnce ==
    /\ [](playing => stopChan \notin closedChans)
    /\ [][PauseStep => (playing /\ stopChan \notin closedChans
                         /\ closedChans' = closedChans \cup {stopChan})]_vars
    /\ [][closedChans' # closedChans => PauseStep]_vars

\* the channel of the first Play was closed by a Pause, and the channel of
\* the second Play by a later one
C34_TwoChannelsClosed == stopChan = 2 /\ closedChans = {1, 2} /\ ~playing /\ inCall = NoCall

\* no method of the Player is running and every playbackLoop has returned
Quiet == inCall.op = "none" /\ \A l \in LoopIds : loops[l].pc \in {"none", "done"}

\* the first half of C30: a stopped Player with nothing in progress has no
\* audio process
C30_NoAudioWhenStopped == (~playing /\ Quiet) => audio = "stopped"

\* the audioPlayer.Stop() of loop l, which has played to the end
EndStopsAudio(l) == loops[l].pc = "stopAudio" /\ loops'[l].pc = "done"

\* the second half of C30: the Stop of a loop that has played to the end
\* leaves the audio of a Play called after that end running
C30_LoopEndSparesLaterAudio ==
    [][\A l \in LoopIds :
          (EndStopsAudio(l) /\ l < stopChan /\ playing /\ audio = "running")
             => audio' = "running"]_vars

\* C30: whenever the Player is stopped and nothing is in progress no audio
\* process runs, for every interleaving of Play, Pause, Seek and the loop
\* reaching the end; and a loop that ends naturally never stops the audio
\* started by a later Play.
C30_AudioFollowsPlayback == []C30_NoAudioWhenStopped /\ C30_LoopEndSparesLaterAudio

-----------------------------------------------------------------------------
(* Model.Update: the keys of the main view (ui/model.go) *)

\* A time.Duration is a 64-bit count of nanoseconds; the sums and products of
\* Update are computed here on pairs <<seconds, nanoseconds>> with
\* 0 <= nanoseconds < Second, so that no value is cut to fewer bits than the
\* program keeps.
Wide(x) == <<x \div Second, x % Second>>

WideAdd(a, b) == <<a[1] + b[1] + ((a[2] + b[2]) \div Second), (a[2] + b[2]) % Second>>

WideNeg(a) == IF a[2] = 0 THEN <<-a[1], 0>> ELSE <<-a[1] - 1, Second - a[2]>>

WideLess(a, b) == a[1] < b[1] \/ (a[1] = b[1] /\ a[2] < b[2])

\* time.Duration(n) * d, for 0 <= n and 0 <= d <= Second
WideMul(n, d) ==
    LET high == n * (d \div 100000)
        low  == n * (d % 100000)
    IN WideAdd(<<high \div 10000, (high % 10000) * 100000>>, Wide(low))

\* the position Seek stores for a target that is a pair
ClampWide(t, d) ==
    IF t[1] < 0 THEN 0
    ELSE IF WideLess(Wide(d), t) THEN d
    ELSE t[1] * Second + t[2]

DigitKeys == {"0", "1", "2", "3", "4", "5", "6", "7", "8", "9"}
BackKeys == {"h", "H", ","}
ForwardKeys == {"l", "L", "."}
SeekKeys == BackKeys \cup ForwardKeys
EndKeys == {"$", "G"}
MainKeys == DigitKeys \cup SeekKeys \cup EndKeys

RECURSIVE Pow10(_)
Pow10(e) == IF e = 0 THEN 1 ELSE 10 * Pow10(e - 1)

\* int(msg.Runes[0] - '0')
DigitOf(k) ==
    CASE k = "0" -> 0 [] k = "1" -> 1 [] k = "2" -> 2 [] k = "3" -> 3 [] k = "4" -> 4
      [] k = "5" -> 5 [] k = "6" -> 6 [] k = "7" -> 7 [] k = "8" -> 8 [] k = "9" -> 9

\* n := m.repeatCount; if n <= 0 { n = 1 }
CountOf(n) == IF n <= 0 THEN 1 ELSE n

\* the distance a seek key moves by: time.Duration(n) * time.Second,
\* time.Duration(n*5) * time.Second, time.Duration(n) * frameDuration
KeyDistance(k, n, frameDur) ==
    IF k \in {"h", "l"} THEN <<n, 0>>
    ELSE IF k \in {"H", "L"} THEN <<n * 5, 0>>
    ELSE WideMul(n, frameDur)

\* pos - distance or pos + distance
KeyTarget(k, pos, n, frameDur) ==
    IF k \in BackKeys THEN WideAdd(Wide(pos), WideNeg(KeyDistance(k, n, frameDur)))
    ELSE WideAdd(Wide(pos), KeyDistance(k, n, frameDur))

\* Update is between two messages
Idle == ~uiPanicked /\ uiNext = "none" /\ inCall.op = "none"

\* a key message goes to the main switch: neither modal is open
MainView == Idle /\ ~showHelpModal /\ ~showExportModal

\* One tea.KeyMsg handled by Update with neither modal open.  pos, fps and
\* frameDuration are computed before the switch, whatever the key is: with a
\* frame rate of 0 the division panics at run time and no key is handled.
\* The Player is stopped here, so no playbackLoop runs between the read of
\* the position and the Seek; the part of Seek after its unlock is SeekTail.
KeyPress(k) ==
    /\ MainView
    /\ keys < MaxKeys
    /\ keys' = keys + 1
    /\ keyLast' = [key |-> k, count |-> repeatCount, pos |-> position]
    /\ IF playerFps = 0
       THEN /\ uiPanicked' = TRUE
            /\ UNCHANGED <<repeatCount, playerVars>>
       ELSE LET pos == position
                frameDur == TruncDiv(Second, playerFps)
                n == CountOf(repeatCount)
            IN /\ uiPanicked' = FALSE
               /\ IF k \in DigitKeys /\ k # "0"
                  THEN /\ repeatCount < Pow10(MaxDigits - 1)
                       /\ repeatCount' = repeatCount * 10 + DigitOf(k)
                       /\ UNCHANGED playerVars
                  ELSE IF k = "0"
                  THEN IF repeatCount = 0
                       THEN /\ SeekBody(0, Clamp(0, duration))
                            /\ UNCHANGED <<repeatCount, calls>>
                       ELSE /\ repeatCount < Pow10(MaxDigits - 1)
                            /\ repeatCount' = repeatCount * 10
                            /\ UNCHANGED playerVars
                  ELSE IF k \in SeekKeys
                  THEN /\ SeekBody(KeyTarget(k, pos, n, frameDur),
                                   ClampWide(KeyTarget(k, pos, n, frameDur), duration))
                       /\ repeatCount' = 0
                       /\ UNCHANGED calls
                  ELSE /\ SeekBody(duration, Clamp(duration, duration))
                       /\ repeatCount' = 0
                       /\ UNCHANGED calls
    /\ UNCHANGED <<undoStack, previewMode, showExportModal, exportFocusField, exporting,
                   exportProgress, showHelpModal, uiNext, previewChan>>
    /\ UNCHANGED <<cacheVars, trimVars, workerVars, streamVars, audioVars>>

\* the division by an frame rate of 0 that Update makes before the switch on
\* the key: a run-time panic, with nothing handled
KeyPanic ==
    /\ uiPanicked' = TRUE
    /\ UNCHANGED <<repeatCount, keys, keyLast, undoStack, previewMode, showExportModal,
                   exportFocusField, exporting, exportProgress, showHelpModal, uiNext,
                   previewChan>>
    /\ UNCHANGED <<cacheVars, trimVars, workerVars, streamVars, playerVars, audioVars>>

TrimKeys == {"i", "o", "esc", "d", "u"}

\* saveTrimState's trimSnapshot: copies of the two points
SnapshotOfNone(in, out) == [inPoint |-> <<>>, outPoint |-> <<>>]
Snapshot(in, out) == [inPoint |-> in, outPoint |-> out]

\* 'i', 'o', 'esc' or 'd', and 'u' in the main view: saveTrimState and the
\* TrimState call, or the pop of the undo stack
TrimKey(k) ==
    /\ MainView
    /\ keys < MaxKeys
    /\ keys' = keys + 1
    /\ keyLast' = [key |-> k, count |-> repeatCount, pos |-> position]
    /\ IF playerFps = 0
       THEN /\ uiPanicked' = TRUE
            /\ UNCHANGED <<trimVars, undoStack, previewMode>>
       ELSE /\ uiPanicked' = FALSE
            /\ CASE k = "i" ->
                      /\ undoStack' = Append(undoStack, Snapshot(InPoint, OutPoint))
                      /\ InPoint' = <<position>>
                      /\ OutPoint' = SetInOutPoint(OutPoint, position)
                      /\ trimLast' = [op |-> "SetIn", pos |-> position, preIn |-> InPoint,
                                      preOut |-> OutPoint]
                      /\ UNCHANGED previewMode
                 [] k = "o" ->
                      /\ undoStack' = Append(undoStack, Snapshot(InPoint, OutPoint))
                      /\ InPoint' = SetOutInPoint(InPoint, position)
                      /\ OutPoint' = <<position>>
                      /\ trimLast' = [op |-> "SetOut", pos |-> position, preIn |-> InPoint,
                                      preOut |-> OutPoint]
                      /\ UNCHANGED previewMode
                 [] k \in {"esc", "d"} ->
                      /\ undoStack' = IF InPoint # <<>> \/ OutPoint # <<>>
                                      THEN Append(undoStack, Snapshot(InPoint, OutPoint))
                                      ELSE undoStack
                      /\ InPoint' = <<>>
                      /\ OutPoint' = <<>>
                      /\ trimLast' = [op |-> "Clear", pos |-> 0, preIn |-> InPoint,
                                      preOut |-> OutPoint]
                      /\ previewMode' = FALSE
                 [] k = "u" ->
                      /\ IF Len(undoStack) > 0
                         THEN /\ undoStack' = SubSeq(undoStack, 1, Len(undoStack) - 1)
                              /\ InPoint' = undoStack[Len(undoStack)].inPoint
                              /\ OutPoint' = undoStack[Len(undoStack)].outPoint
                         ELSE UNCHANGED <<undoStack, InPoint, OutPoint>>
                      /\ trimLast' = [op |-> "Undo", pos |-> 0, preIn |-> InPoint,
                                      preOut |-> OutPoint]
                      /\ UNCHANGED previewMode
    /\ UNCHANGED <<repeatCount, showExportModal, exportFocusField, exporting, exportProgress,
                   showHelpModal, uiNext, previewChan>>
    /\ UNCHANGED <<cacheVars, workerVars, streamVars, playerVars, audioVars>>

\* 'enter' in the main view
KeyEnter ==
    /\ MainView
    /\ IF playerFps = 0
       THEN KeyPanic
       ELSE /\ showExportModal' = IF IsComplete THEN TRUE ELSE showExportModal
            /\ UNCHANGED <<repeatCount, uiPanicked, keys, keyLast, undoStack, previewMode,
                           exportFocusField, exporting, exportProgress, showHelpModal, uiNext,
                           previewChan>>
            /\ UNCHANGED <<cacheVars, trimVars, workerVars, streamVars, playerVars, audioVars>>

\* '?' in the main view
KeyHelp ==
    /\ MainView
    /\ IF playerFps = 0
       THEN KeyPanic
       ELSE /\ showHelpModal' = TRUE
            /\ UNCHANGED <<repeatCount, uiPanicked, keys, keyLast, undoStack, previewMode,
                           showExportModal, exportFocusField, exporting, exportProgress,
                           uiNext, previewChan>>
            /\ UNCHANGED <<cacheVars, trimVars, workerVars, streamVars, playerVars, audioVars>>

HelpKeys == {"?", "esc", "j"}

\* handleHelpModalKey
HelpModalKey(k) ==
    /\ Idle /\ showHelpModal
    /\ showHelpModal' = IF k \in {"?", "esc", "q", "enter", " "} THEN FALSE ELSE showHelpModal
    /\ UNCHANGED <<repeatCount, uiPanicked, keys, keyLast, undoStack, previewMode,
                   showExportModal, exportFocusField, exporting, exportProgress, uiNext,
                   previewChan>>
    /\ UNCHANGED <<cacheVars, trimVars, workerVars, streamVars, playerVars, audioVars>>

ModalKeys == {"esc", "enter", "up", "down"}

\* handleExportModalKey: esc, enter (which reads *Trim.InPoint and
\* *Trim.OutPoint for the ExportOptions: a nil one is a run-time panic) and the
\* keys that move the focus
ExportModalKey(k) ==
    /\ Idle /\ ~showHelpModal /\ showExportModal
    /\ CASE k = "esc" ->
              /\ showExportModal' = IF ~exporting THEN FALSE ELSE showExportModal
              /\ UNCHANGED <<uiPanicked, exporting, exportProgress, exportFocusField>>
         [] k = "enter" ->
              IF exporting
              THEN UNCHANGED <<uiPanicked, showExportModal, exporting, exportProgress,
                               exportFocusField>>
              ELSE /\ exporting' = TRUE
                   /\ exportProgress' = 0
                   /\ uiPanicked' = (InPoint = <<>> \/ OutPoint = <<>>)
                   /\ UNCHANGED <<showExportModal, exportFocusField>>
         [] k = "up" ->
              /\ exportFocusField' = IF exportFocusField > 0 THEN exportFocusField - 1
                                     ELSE exportFocusField
              /\ UNCHANGED <<uiPanicked, showExportModal, exporting, exportProgress>>
         [] k = "down" ->
              /\ exportFocusField' = IF exportFocusField < 1 THEN exportFocusField + 1
                                     ELSE exportFocusField
              /\ UNCHANGED <<uiPanicked, showExportModal, exporting, exportProgress>>
    /\ UNCHANGED <<repeatCount, keys, keyLast, undoStack, previewMode, showHelpModal, uiNext,
                   previewChan>>
    /\ UNCHANGED <<cacheVars, trimVars, workerVars, streamVars, playerVars, audioVars>>

\* ExportDoneMsg, sent when the export started by the modal's enter has ended
ExportDone ==
    /\ Idle /\ exporting
    /\ exporting' = FALSE
    /\ showExportModal' = FALSE
    /\ exportProgress' = 0
    /\ UNCHANGED <<repeatCount, uiPanicked, keys, keyLast, undoStack, previewMode,
                   exportFocusField, showHelpModal, uiNext, previewChan>>
    /\ UNCHANGED <<cacheVars, trimVars, workerVars, streamVars, playerVars, audioVars>>

Progresses == {50}

\* ExportProgressMsg, sent while the export runs
ExportProgress(p) ==
    /\ Idle /\ exporting
    /\ exportProgress' = p
    /\ UNCHANGED <<repeatCount, uiPanicked, keys, keyLast, undoStack, previewMode,
                   showExportModal, exportFocusField, exporting, showHelpModal, uiNext,
                   previewChan>>
    /\ UNCHANGED <<cacheVars, trimVars, workerVars, streamVars, playerVars, audioVars>>

\* CalculatePanelDimensions: PreviewContentWidth and PreviewContentHeight
PreviewContentWidth(termWidth) == IF termWidth - 30 - 6 > 0 THEN termWidth - 30 - 6 ELSE 0
PreviewContentHeight(termHeight) == IF termHeight - 8 - 3 > 0 THEN termHeight - 8 - 3 ELSE 0

TermSizes == {<<126, 35>>, <<30, 8>>}

\* tea.WindowSizeMsg: SetSize with the preview's content size
WindowSize(tw, th) ==
    /\ Idle
    /\ SetSize(PreviewContentWidth(tw), PreviewContentHeight(th))

\* ' ' in the main view
KeySpace ==
    /\ MainView
    /\ IF playerFps = 0 THEN KeyPanic ELSE Toggle

\* 'p' in the main view, up to the return of Seek's locked part
KeyP ==
    /\ MainView
    /\ keys < MaxKeys
    /\ IF playerFps = 0
       THEN KeyPanic
       ELSE /\ keys' = keys + 1
            /\ keyLast' = [key |-> "p", count |-> repeatCount, pos |-> position]
            /\ IF InPoint # <<>>
               THEN /\ SeekBody(InPoint[1], Clamp(InPoint[1], duration))
                    /\ uiNext' = "play"
               ELSE UNCHANGED <<playerVars, uiNext>>
            /\ UNCHANGED calls
            /\ UNCHANGED <<repeatCount, uiPanicked, undoStack, previewMode, showExportModal,
                           exportFocusField, exporting, exportProgress, showHelpModal,
                           previewChan>>
            /\ UNCHANGED <<cacheVars, trimVars, workerVars, streamVars, audioVars>>

\* 'p' after Seek has returned: m.previewMode = true and m.player.Play()
KeyPlay ==
    /\ uiNext = "play" /\ inCall.op = "none"
    /\ uiNext' = "none"
    /\ previewMode' = TRUE
    /\ PlayBody
    /\ previewChan' = stopChan'
    /\ UNCHANGED <<duration, quality, renderLast, position, playerFps, width, height,
                   currentFrame, closedChans, stream, streams, inCall, calls, seeks,
                   seeksReturned, lastCommit>>
    /\ UNCHANGED <<repeatCount, uiPanicked, keys, keyLast, undoStack, showExportModal,
                   exportFocusField, exporting, exportProgress, showHelpModal>>
    /\ UNCHANGED <<cacheVars, trimVars, workerVars, streamVars, audioVars>>

\* TickMsg up to m.player.IsPlaying(): in preview mode with the Player
\* playing the handler goes on, and it changes nothing otherwise
Tick ==
    /\ Idle
    /\ previewMode /\ playing
    /\ uiNext' = "pause"
    /\ UNCHANGED <<repeatCount, uiPanicked, keys, keyLast, undoStack, previewMode,
                   showExportModal, exportFocusField, exporting, exportProgress,
                   showHelpModal, previewChan>>
    /\ UNCHANGED <<cacheVars, trimVars, workerVars, streamVars, playerVars, audioVars>>

\* the out-point test at the position read
OutReached(out, pos) == out # <<>> /\ pos >= out[1]

\* TickMsg from the out-point test on: Pause's locked part and
\* m.previewMode = false when the position has reached the out-point
TickPause ==
    /\ uiNext = "pause" /\ inCall.op = "none"
    /\ uiNext' = "none"
    /\ IF OutReached(OutPoint, position)
       THEN /\ previewMode' = FALSE
            /\ IF playing THEN PauseBody("Pause")
                          ELSE UNCHANGED <<playing, closedChans, inCall, stream>>
       ELSE UNCHANGED <<previewMode, playing, closedChans, inCall, stream>>
    /\ UNCHANGED <<duration, quality, renderLast, position, playerFps, width, height,
                   frameInterval, currentFrame, stopChan, streams, audio, loops, calls, seeks,
                   seeksReturned, paused, lastCommit>>
    /\ UNCHANGED <<repeatCount, uiPanicked, keys, keyLast, undoStack, showExportModal,
                   exportFocusField, exporting, exportProgress, showHelpModal, previewChan>>
    /\ UNCHANGED <<cacheVars, trimVars, workerVars, streamVars, audioVars>>

-----------------------------------------------------------------------------
(* Model.Update: claims *)

CeilDiv(a, b) == (a + b - 1) \div b

\* the position N steps of `step` nanoseconds (step <= Second) away from pos,
\* kept inside [0, duration]
StepsBack(pos, n, step) == IF n >= CeilDiv(pos, step) THEN 0 ELSE pos - n * step

StepsForward(pos, n, step) ==
    IF n >= CeilDiv(duration - pos, step) THEN duration ELSE pos + n * step

\* where the table of keys and the repeat-count rule put the position
CountedSeek(k, pos, n) ==
    CASE k = "h" -> StepsBack(pos, n, Second)
      [] k = "l" -> StepsForward(pos, n, Second)
      [] k = "H" -> StepsBack(pos, 5 * n, Second)
      [] k = "L" -> StepsForward(pos, 5 * n, Second)
      [] k = "," -> StepsBack(pos, n, Second \div playerFps)
      [] k = "." -> StepsForward(pos, n, Second \div playerFps)

KeyStep == keys' = keys + 1

CountedSeekDone ==
    LET k == keyLast'.key
        n == IF repeatCount = 0 THEN 1 ELSE repeatCount
    IN /\ k \in SeekKeys =>
            /\ ~uiPanicked'
            /\ position' = CountedSeek(k, position, n)
            /\ repeatCount' = 0
       /\ (k = "0" /\ repeatCount = 0) => (~uiPanicked' /\ position' = 0)

\* C15: in the main view a count N typed before h, l, H, L, ',' or '.' seeks
\* by N times the key's step (1 s, 5 s, one frame) in the key's direction,
\* clamped to [0, duration], and resets the count to 0; with no pending count
\* the step is taken once, and '0' with no pending count seeks to 0.
C15_CountedSeek == [][KeyStep => CountedSeekDone]_vars

\* the same for the sessions whose frame rate is at least 1
C15_CountedSeekAtKnownRate == [][(KeyStep /\ playerFps > 0) => CountedSeekDone]_vars

\* a count of two digits was used by a frame step that stayed inside the video
C15_CountedFrameStep ==
    /\ keyLast.key = "." /\ keyLast.count >= 10 /\ repeatCount = 0
    /\ position > keyLast.pos /\ position < duration

\* the Player's part of C26: at frame rate 0 Play's frame interval is a 24th
\* of a second and every stream the loop opens runs at 24 frames per second
C26_ZeroRatePlaysAt24 ==
    playerFps = 0 =>
       /\ playing => frameInterval = Second \div 24
       /\ \A id \in StreamIds : streams[id].live => streams[id].f = 24

\* C26: a session whose frame rate is 0 is tolerated: playback runs at 24
\* frames per second and no operation, a key press in the main view included,
\* fails with a division by zero.
C26_ZeroRateTolerated == C26_ZeroRatePlaysAt24 /\ (playerFps = 0 => ~uiPanicked)

\* the trim state, as a snapshot of it
TrimNow == [inPoint |-> InPoint, outPoint |-> OutPoint]

\* a key that Update has handled to its end
Handled(ks) == KeyStep /\ ~uiPanicked' /\ keyLast'.key \in ks

\* 'i', 'o', or a clear made with a point set
MarkHandled ==
    \/ Handled({"i", "o"})
    \/ Handled({"esc", "d"}) /\ (InPoint # <<>> \/ OutPoint # <<>>)

\* the snapshot taken before the last pending key that changed the trim
\* state, and the trim state itself when no pending key changed it
BeforeLastChange ==
    LET changed == {k \in DOMAIN undoStack : undoStack[k] # TrimNow}
    IN  IF changed = {} THEN TrimNow
        ELSE undoStack[CHOOSE k \in changed : \A j \in changed : j <= k]

\* C37 as stated: 'u' puts the trim state back to what it was before the most
\* recent not-yet-undone 'i', 'o' or clear that changed it.
C37_UndoRevertsLastChange == [][Handled({"u"}) => TrimNow' = BeforeLastChange]_vars

\* C37: every 'i' and 'o', and every clear made with a point set, pushes the
\* trim state it was pressed in, whether or not it changes that state; 'u'
\* puts the trim state back to the snapshot pushed last and pops it, and
\* changes nothing on an empty stack; so the trim state is the initial one
\* whenever the stack is empty, and InPoint <= OutPoint holds throughout.
C37_UndoPopsLastSnapshot ==
    /\ [][MarkHandled => undoStack' = Append(undoStack, TrimNow)]_vars
    /\ [][Handled({"u"}) =>
             IF undoStack = <<>>
             THEN UNCHANGED <<InPoint, OutPoint, undoStack>>
             ELSE /\ TrimNow' = undoStack[Len(undoStack)]
                  /\ undoStack' = SubSeq(undoStack, 1, Len(undoStack) - 1)]_vars
    /\ [](undoStack = <<>> => (InPoint = <<>> /\ OutPoint = <<>>))
    /\ []((InPoint # <<>> /\ OutPoint # <<>>) => InPoint[1] <= OutPoint[1])

\* 'i' at 0, 'o' at the end, and a 'u' that has taken the out-point back
C37_OutPointUndone ==
    /\ keyLast.key = "u" /\ ~uiPanicked
    /\ trimLast.op = "Undo" /\ trimLast.preOut = <<duration>>
    /\ InPoint = <<0>> /\ OutPoint = <<>> /\ Len(undoStack) = 1

\* C38: while the export modal is shown both trim points are set and no key
\* or other message changes them, and no handler has failed on an unset
\* point: the modal's enter, which reads both points, finds them set.
C38_ModalNeedsBothPoints ==
    /\ [](showExportModal => (InPoint # <<>> /\ OutPoint # <<>> /\ ~uiPanicked))
    /\ [][showExportModal => UNCHANGED <<InPoint, OutPoint>>]_vars
    /\ [][(exporting' /\ ~exporting) => (InPoint # <<>> /\ OutPoint # <<>>)]_vars

\* the modal was opened during a preview and its enter has started an export;
\* a tick has ended the preview, a progress message has come in, and the modal
\* is still shown
C38_ExportingAfterTickPause ==
    /\ showExportModal /\ exporting /\ exportProgress = 50
    /\ previewChan = 1 /\ ~previewMode /\ ~playing /\ 1 \in closedChans /\ inCall = NoCall
    /\ InPoint # <<>> /\ OutPoint # <<>>

\* the tick handler pauses the Player
TickPauses == uiNext = "pause" /\ playing /\ ~playing'

\* C39: between two messages preview mode is on only while the playback that
\* 'p' started (or found running) is still playing, and the tick handler
\* pauses no other playback: one started later has a later stop channel.
C39_TickPausesPreviewOnly ==
    /\ []((Idle /\ previewMode) => (playing /\ stopChan = previewChan))
    /\ [][TickPauses => stopChan = previewChan]_vars

----------------------------------------------------------------------------
(* Initial states and specifications *)

\* NewFrameCache(c, f)
CacheInit(caps, rates) ==
    /\ capacity \in {NewCapacity(c) : c \in caps}
    /\ fps \in rates
    /\ items = {}
    /\ order = <<>>
    /\ panicked = FALSE
    /\ tick = 0
    /\ used = << >>
    /\ cacheLast = [op |-> "new", pos |-> 0, w |-> 0, h |-> 0, q |-> 0,
                    hit |-> FALSE, frame |-> "", panic |-> FALSE]

TrimInit ==
    /\ InPoint = <<>>
    /\ OutPoint = <<>>
    /\ trimLast = [op |-> "new", pos |-> 0, preIn |-> <<>>, preOut |-> <<>>]

\* NewRenderWorker(arg)
\* NewFrameStream, and the output of the ffmpeg it started
StreamInit(inputs, cuts) ==
    /\ cmd = "ffmpeg"
    /\ stdout = "pipe"
    /\ cancel = "set"
    /\ frames \in inputs
    /\ cut \in cuts
    /\ pipe = Truncate(Concat(frames), cut)
    /\ returned = <<>>
    /\ closeCalls = <<>>

\* NewPlayer on a file of duration d and whole frame rate f, SetSize not yet called
PlayerInit(sessions, sizes) ==
    /\ \E ss \in sessions : playerFps = ss[1] /\ duration = ss[2]
    /\ \E sz \in sizes : width = sz[1] /\ height = sz[2]
    /\ position = 0
    /\ playing = FALSE
    /\ frameInterval = 0
    /\ currentFrame = <<>>
    /\ stopChan = 0
    /\ closedChans = {}
    /\ stream = 0
    /\ streams = [id \in StreamIds |-> NoStream]
    /\ audio = "stopped"
    /\ loops = [l \in LoopIds |-> NoLoop]
    /\ inCall = NoCall
    /\ calls = 0
    /\ seeks = 0
    /\ seeksReturned = NoSeek
    /\ paused = FALSE
    /\ lastCommit = NoCommit
    /\ quality = QualityHigh
    /\ renderLast = NoRender

\* NewModel
UiInit ==
    /\ repeatCount = 0
    /\ uiPanicked = FALSE
    /\ keys = 0
    /\ keyLast = [key |-> "none", count |-> 0, pos |-> 0]
    /\ undoStack = <<>>
    /\ previewMode = FALSE
    /\ showExportModal = FALSE
    /\ exportFocusField = 0
    /\ exporting = FALSE
    /\ exportProgress = 0
    /\ showHelpModal = FALSE
    /\ uiNext = "none"
    /\ previewChan = 0

\* a Player that is left alone, and its Model
\* NewAudioPlayer
AudioInit ==
    /\ audioCmd = NilCmd
    /\ muted = FALSE
    /\ audioLive = {}
    /\ audioSpawned = 0
    /\ audioLog = <<>>

PlayerIdle == PlayerInit({<<0, 0>>}, {<<0, 0>>}) /\ UiInit /\ AudioInit

WorkerInit(args) ==
    /\ workerArg \in args
    /\ maxConcurrent = NewMaxConcurrent(workerArg)
    /\ semaphore = 0
    /\ latestSeq = 0
    /\ cancelFunc = 0
    /\ pc = [s \in Requests |-> "idle"]
    /\ ctx = [s \in Requests |-> "none"]
    /\ result = [s \in Requests |-> "none"]
    /\ sync = [s \in Requests |-> "none"]
    /\ cbLog = <<>>
    /\ superseded = {}
    /\ issued = <<>>
    /\ delivered = [s \in Requests |-> "none"]

InitCache == CacheInit(1..MaxCap, CacheRates) /\ TrimInit /\ WorkerInit({0}) /\
    StreamInit({<<>>}, {0}) /\ PlayerIdle

NextCache ==
    \/ \E p \in CachePositions, s \in CacheSizes, q \in CacheQualities, f \in CacheFrames :
          Put(p, s[1], s[2], q, f)
    \/ \E p \in CachePositions, s \in CacheSizes, q \in CacheQualities :
          Get(p, s[1], s[2], q)
    \/ Clear
    \/ \E f \in CacheRates : SetFPS(f)

SpecCache == InitCache /\ [][NextCache]_vars

InitQuant == CacheInit({MaxCap}, QuantRates) /\ TrimInit /\ WorkerInit({0}) /\
    StreamInit({<<>>}, {0}) /\ PlayerIdle

NextQuant ==
    \/ \E p \in QuantPositions, v \in QuantVariants :
          tick < QuantOps /\ Put(p, v[1], v[2], v[3], "f1")
    \/ \E p \in QuantPositions, v \in QuantVariants :
          tick < QuantOps /\ Get(p, v[1], v[2], v[3])

SpecQuant == InitQuant /\ [][NextQuant]_vars

InitTrim == CacheInit({MaxCap}, {0}) /\ TrimInit /\ WorkerInit({0}) /\
    StreamInit({<<>>}, {0}) /\ PlayerIdle

NextTrim ==
    \/ \E pos \in TrimPositions : SetIn(pos)
    \/ \E pos \in TrimPositions : SetOut(pos)
    \/ TrimClear

SpecTrim == InitTrim /\ [][NextTrim]_vars

\* the arguments NewRenderWorker is called with
WorkerArgs == {-1, 0, 1, 2}
RenderResults == {"frame", "error"}

InitWorker == CacheInit({MaxCap}, {0}) /\ TrimInit /\ WorkerInit(WorkerArgs) /\
    StreamInit({<<>>}, {0}) /\ PlayerIdle

NextWorker ==
    \/ NextSeq
    \/ \E s \in Requests : Submit(s)
    \/ \E s \in Requests : SubmitSync(s)
    \/ \E s \in Requests : Acquire(s)
    \/ \E s \in Requests : AcquireAbandon(s)
    \/ \E s \in Requests, r \in RenderResults : RenderReturns(s, r)
    \/ \E s \in Requests : Callback(s)
    \/ \E s \in Requests : CtxTimeout(s)
    \/ \E s \in Requests : SyncTimeout(s)
    \/ CancelAll

SpecWorker == InitWorker /\ [][NextWorker]_vars

\* SubmitSync's waiting: time passes, so a live context reaches its deadline
\* and a timer that has elapsed is taken by the select that waits on it
InitSync == CacheInit({MaxCap}, {0}) /\ TrimInit /\ WorkerInit({0}) /\
    StreamInit({<<>>}, {0}) /\ PlayerIdle

FairSync == \A s \in Requests : WF_vars(CtxTimeout(s)) /\ WF_vars(SyncTimeout(s))

SpecSync == InitSync /\ [][NextWorker]_vars /\ FairSync

\* the goroutines of the requests run: a goroutine that can take a slot does,
\* every render function returns, and a goroutine past its last select calls
\* its callback; time may pass or not.  The worker has one slot, so that a
\* request waits for the slot of the one before it.
InitDeliver == CacheInit({MaxCap}, {0}) /\ TrimInit /\ WorkerInit({1}) /\
    StreamInit({<<>>}, {0}) /\ PlayerIdle

FairDeliver ==
    \A s \in Requests :
        /\ WF_vars(Acquire(s))
        /\ WF_vars(\E r \in RenderResults : RenderReturns(s, r))
        /\ WF_vars(Callback(s))

SpecDeliver == InitDeliver /\ [][NextWorker]_vars /\ FairDeliver

InitStream ==
    CacheInit({MaxCap}, {0}) /\ TrimInit /\ WorkerInit({0}) /\ StreamInit(StreamInputs, Cuts) /\
    PlayerIdle

NextStream ==
    \/ NextFrame
    \/ Close

SpecStream == InitStream /\ [][NextStream]_vars

InitAudio ==
    CacheInit({MaxCap}, {0}) /\ TrimInit /\ WorkerInit({0}) /\ StreamInit({<<>>}, {0}) /\
    PlayerIdle

NextAudio ==
    \/ \E ok \in BOOLEAN : AudioStart(ok)
    \/ AudioStop
    \/ ToggleMute
    \/ \E id \in audioLive : AudioExit(id)

SpecAudio == InitAudio /\ [][NextAudio]_vars

\* (fps, duration) of the files opened, in nanoseconds
Sessions == {<<2, 1000000000>>, <<0, 50000000>>}
Sizes == {<<0, 0>>, <<80, 24>>, <<40, 12>>}
SeekTargets == {-Second, 400000000, 2 * Second}
ReadOutcomes == {"frame", "readError", "renderError"}

\* NewPlayer's cache: NewFrameCache(DefaultCacheCapacity, props.FPS)
PlayerCacheInit == CacheInit({DefaultCacheCapacity}, {playerFps})

InitPlayer ==
    /\ PlayerInit(Sessions, {<<0, 0>>, <<80, 24>>}) /\ PlayerCacheInit
    /\ TrimInit /\ WorkerInit({0}) /\ StreamInit({<<>>}, {0}) /\ UiInit /\ AudioInit

NextLoop ==
    \/ \E l \in LoopIds, ok \in BOOLEAN : LoopTop(l, ok)
    \/ \E l \in LoopIds : LoopPublish(l)
    \/ \E l \in LoopIds, o \in ReadOutcomes : LoopRead(l, o)
    \/ \E l \in LoopIds : LoopCommit(l)
    \/ \E l \in LoopIds : LoopStopAudio(l)

NextPlayer ==
    \/ Play
    \/ Pause
    \/ \E ok \in BOOLEAN : PauseTail(ok)
    \/ PlayerClose
    \/ Toggle
    \/ ToggleCall
    \/ \E t \in SeekTargets : Seek(t)
    \/ \E ok \in BOOLEAN : SeekTail(ok)
    \/ \E sz \in Sizes : SetSize(sz[1], sz[2])
    \/ \E ok \in BOOLEAN : SetSizeTail(ok)
    \/ CycleQuality
    \/ \E ok \in BOOLEAN : CycleQualityTail(ok)
    \/ NextLoop

SpecPlayer == InitPlayer /\ [][NextPlayer]_vars

\* playback that nothing stops: Play and SetSize with dimensions, and no
\* Pause, Toggle, Seek or Close; every loop that can take a step takes one
LoopStep(l) ==
    \/ \E ok \in BOOLEAN : LoopTop(l, ok)
    \/ LoopPublish(l)
    \/ \E o \in ReadOutcomes : LoopRead(l, o)
    \/ LoopCommit(l)
    \/ LoopStopAudio(l)

NextPlayback ==
    \/ Play
    \/ \E sz \in Sizes \ {<<0, 0>>} : SetSize(sz[1], sz[2])
    \/ \E ok \in BOOLEAN : SetSizeTail(ok)
    \/ NextLoop

FairPlayback == \A l \in LoopIds : WF_vars(LoopStep(l))

SpecPlayback == InitPlayer /\ [][NextPlayback]_vars /\ FairPlayback

\* a Player on which SetSize(80, 24) and then Play have been called and have
\* returned: Play's loop has not taken a step yet
PlayerStarted(sessions) ==
    /\ \E ss \in sessions : playerFps = ss[1] /\ duration = ss[2]
    /\ width = 80 /\ height = 24
    /\ position = 0
    /\ playing = TRUE
    /\ frameInterval = PlayInterval(playerFps)
    /\ \E ok \in BOOLEAN :
          /\ currentFrame = IF ok THEN StillFrame(0) ELSE <<>>
          /\ renderLast = [n |-> 1, key |-> CacheKey(0, 80, 24, QualityHigh),
                           hit |-> FALSE, ok |-> ok, frame |-> currentFrame]
    /\ stopChan = 1
    /\ closedChans = {}
    /\ stream = 0
    /\ streams = [id \in StreamIds |-> NoStream]
    /\ audio = "running"
    /\ loops = [l \in LoopIds |-> IF l = 1 THEN [NoLoop EXCEPT !.pc = "top", !.seen = 1]
                                            ELSE NoLoop]
    /\ inCall = NoCall
    /\ calls = 0
    /\ seeks = 0
    /\ seeksReturned = NoSeek
    /\ paused = FALSE
    /\ lastCommit = NoCommit
    /\ quality = QualityHigh

\* the cache of that Player: SetSize's render has stored its frame, if it made one
PlayerCacheStarted ==
    /\ capacity = NewCapacity(DefaultCacheCapacity)
    /\ fps = playerFps
    /\ items = IF renderLast.ok THEN {renderLast.key} ELSE {}
    /\ order = IF renderLast.ok THEN <<[key |-> renderLast.key, frame |-> currentFrame]>>
                                ELSE <<>>
    /\ panicked = FALSE
    /\ tick = 0
    /\ used = << >>
    /\ cacheLast = [op |-> "new", pos |-> 0, w |-> 0, h |-> 0, q |-> 0,
                    hit |-> FALSE, frame |-> "", panic |-> FALSE]

\* a Player on which SetSize(80, 24), Play and then Pause have been called and
\* have returned: the first channel is closed, Pause has shown the frame at 0
\* if it could be rendered, and Play's loop has seen the closed channel in its
\* first select and has returned
PlayerPaused(sessions) ==
    /\ \E ss \in sessions : playerFps = ss[1] /\ duration = ss[2]
    /\ width = 80 /\ height = 24
    /\ position = 0
    /\ playing = FALSE
    /\ frameInterval = PlayInterval(playerFps)
    /\ \E ok \in BOOLEAN :
          /\ currentFrame = IF ok THEN StillFrame(0) ELSE <<>>
          /\ renderLast = [n |-> 2, key |-> CacheKey(0, 80, 24, QualityHigh),
                           hit |-> ok, ok |-> ok, frame |-> currentFrame]
    /\ stopChan = 1
    /\ closedChans = {1}
    /\ stream = 0
    /\ streams = [id \in StreamIds |-> NoStream]
    /\ audio = "stopped"
    /\ loops = [l \in LoopIds |-> IF l = 1 THEN [NoLoop EXCEPT !.pc = "done", !.seen = 1]
                                            ELSE NoLoop]
    /\ inCall = NoCall
    /\ calls = 0
    /\ seeks = 0
    /\ seeksReturned = NoSeek
    /\ paused = TRUE
    /\ lastCommit = NoCommit
    /\ quality = QualityHigh

InitStopped ==
    /\ PlayerPaused(Sessions) /\ PlayerCacheStarted
    /\ TrimInit /\ WorkerInit({0}) /\ StreamInit({<<>>}, {0}) /\ UiInit /\ AudioInit

\* Play, Pause, Toggle and Close on that Player, and its loops
NextStopped ==
    \/ Play
    \/ Pause
    \/ \E ok \in BOOLEAN : PauseTail(ok)
    \/ PlayerClose
    \/ Toggle
    \/ ToggleCall
    \/ NextLoop

SpecStopped == InitStopped /\ [][NextStopped]_vars

InitStarted ==
    /\ PlayerStarted(Sessions) /\ PlayerCacheStarted
    /\ TrimInit /\ WorkerInit({0}) /\ StreamInit({<<>>}, {0}) /\ UiInit /\ AudioInit

SpecStarted == InitStarted /\ [][NextPlayer]_vars

\* the sessions of the key handling: a 1 s video at 3 and at 30 frames per
\* second, and a 0.7 s video whose frame rate is unknown (0)
KeySessions == {<<3, Second>>, <<30, Second>>, <<0, 700000000>>}

InitKeys ==
    /\ PlayerInit(KeySessions, {<<80, 24>>}) /\ PlayerCacheInit
    /\ TrimInit /\ WorkerInit({0}) /\ StreamInit({<<>>}, {0}) /\ UiInit /\ AudioInit

NextKeys ==
    \/ \E k \in MainKeys : KeyPress(k)
    \/ \E ok \in BOOLEAN : SeekTail(ok)

SpecKeys == InitKeys /\ [][NextKeys]_vars

\* the Model after its first WindowSizeMsg, for a video of two frames and for
\* one whose frame rate is 0
UiSessions == {<<2, Second>>, <<0, 700000000>>}

InitUi ==
    /\ PlayerInit(UiSessions, {<<80, 24>>}) /\ PlayerCacheInit
    /\ TrimInit /\ WorkerInit({0}) /\ StreamInit({<<>>}, {0}) /\ UiInit /\ AudioInit

\* marking and undoing, with 'l' and '.' to move the position
NextUndo ==
    \/ \E k \in {"l", "."} : KeyPress(k)
    \/ \E ok \in BOOLEAN : SeekTail(ok)
    \/ \E k \in TrimKeys : TrimKey(k)

SpecUndo == InitUi /\ [][NextUndo]_vars

\* the modals, with the keys that change the trim points, the preview that
\* the tick handler ends, and the messages that are not keys; the playbackLoop
\* started by 'p' takes no step here, so the position stays at the in-point
NextModal ==
    \/ \E k \in TrimKeys : TrimKey(k)
    \/ KeyEnter
    \/ KeyHelp
    \/ \E k \in HelpKeys : HelpModalKey(k)
    \/ \E k \in ModalKeys : ExportModalKey(k)
    \/ ExportDone
    \/ \E p \in Progresses : ExportProgress(p)
    \/ \E sz \in TermSizes : WindowSize(sz[1], sz[2])
    \/ \E ok \in BOOLEAN : SetSizeTail(ok)
    \/ KeyP
    \/ \E ok \in BOOLEAN : SeekTail(ok)
    \/ KeyPlay
    \/ Tick
    \/ TickPause
    \/ \E ok \in BOOLEAN : PauseTail(ok)

SpecModal == InitUi /\ [][NextModal]_vars

\* A Model whose video has two frames at 2 frames per second, on which 'i' at
\* 0, '.', 'o' at half a second and 'p' have been handled: the Player plays
\* from the in-point in preview mode and Play's loop has not taken a step yet.
\* The frame of the '.' seek could not be rendered, the one of the 'p' seek
\* was rendered or not.
PlayerPreviewing ==
    /\ playerFps = 2 /\ duration = Second
    /\ width = 80 /\ height = 24
    /\ position = 0
    /\ playing = TRUE
    /\ frameInterval = PlayInterval(playerFps)
    /\ \E ok \in BOOLEAN :
          /\ currentFrame = IF ok THEN StillFrame(0) ELSE <<>>
          /\ renderLast = [n |-> 2, key |-> CacheKey(0, 80, 24, QualityHigh),
                           hit |-> FALSE, ok |-> ok, frame |-> currentFrame]
    /\ stopChan = 1
    /\ closedChans = {}
    /\ stream = 0
    /\ streams = [id \in StreamIds |-> NoStream]
    /\ audio = "running"
    /\ loops = [l \in LoopIds |-> IF l = 1 THEN [NoLoop EXCEPT !.pc = "top", !.seen = 1]
                                            ELSE NoLoop]
    /\ inCall = NoCall
    /\ calls = 0
    /\ seeks = 2
    /\ seeksReturned = NoSeek
    /\ paused = FALSE
    /\ lastCommit = NoCommit
    /\ quality = QualityHigh

UiPreviewing ==
    /\ repeatCount = 0
    /\ uiPanicked = FALSE
    /\ keys = 4
    /\ keyLast = [key |-> "p", count |-> 0, pos |-> Second \div 2]
    /\ undoStack = <<Snapshot(<<>>, <<>>), Snapshot(<<0>>, <<>>)>>
    /\ previewMode = TRUE
    /\ showExportModal = FALSE
    /\ exportFocusField = 0
    /\ exporting = FALSE
    /\ exportProgress = 0
    /\ showHelpModal = FALSE
    /\ uiNext = "none"
    /\ previewChan = 1

InitPreview ==
    /\ PlayerPreviewing /\ PlayerCacheStarted /\ UiPreviewing
    /\ InPoint = <<0>> /\ OutPoint = <<Second \div 2>>
    /\ trimLast = [op |-> "SetOut", pos |-> Second \div 2, preIn |-> <<0>>, preOut |-> <<>>]
    /\ WorkerInit({0}) /\ StreamInit({<<>>}, {0}) /\ AudioInit

\* the preview from there on: ' ', the ticks and the playbackLoops
NextPreview ==
    \/ KeySpace
    \/ ToggleCall
    \/ Tick
    \/ TickPause
    \/ \E ok \in BOOLEAN : PauseTail(ok)
    \/ NextLoop

SpecPreview == InitPreview /\ [][NextPreview]_vars

=============================================================================
